---- MODULE Spec2Model ----
(***************************************************************************)
(* Build-and-deploy workflow of the kagenti dashboard repository:          *)
(*   - the weather-tool Shipwright deploy script (src/unnamed/part_003),   *)
(*   - the poll loops of the cluster scripts (src/unnamed/part_002),       *)
(*   - the tool detail page's status query (src/unnamed/part_001),         *)
(*   - the import page (ui-v2/src/pages/ToolCatalogPage.tsx).              *)
(* Strings the code takes apart (names, paths, images) are sequences of    *)
(* one-character strings; other strings are TLA+ strings.                  *)
(***************************************************************************)
EXTENDS Integers, Sequences, FiniteSets, TLC

(***************************************************************************)
(* Bounds of the model.                                                    *)
(***************************************************************************)
\* Last clock second (date +%s) the model distinguishes.
MaxClock == 1

\* Concurrent invocations of the deploy script.
Runs == {1, 2}

\* Values of the IMAGE_TAG environment variable the runs are started with.
Tags == {"v0.0.1", "v0.0.2"}

\* An absent resource or value is the empty sequence, a present one <<value>>.
None == <<>>

\* No exit status yet, no BuildRun name yet.
Unset == -1

(***************************************************************************)
(* Program constants of the deploy script.                                 *)
(***************************************************************************)
TIMEOUT == 600
POLL_INTERVAL == 10
TOOL_NAME == "weather-tool"
REGISTRY == "registry.cr-system.svc.cluster.local:5000"

\* exit 1 after "BuildRun failed with reason: ..."
ExitBuildFailed == 1
\* exit 1 after "Timeout waiting for BuildRun to complete"
ExitTimeoutDistinct == ExitBuildFailed + 1

ExitTimeout == 1

MsgFailed == "BuildRun failed with reason"
MsgTimeout == "Timeout waiting for BuildRun to complete"
MsgComplete == "=== Weather Tool Deployment Complete ==="
MsgWaitWarning == "Warning: Deployment not ready within timeout, checking status..."

VARIABLES
    \* ---- the cluster, as the deploy script sees it
    now,            \* clock, in seconds
    build,          \* the Build resource named TOOL_NAME, or None
    buildRuns,      \* BuildRun name suffix -> [cond, image]
    deployment,     \* the Deployment named TOOL_NAME, or None
    service,        \* the Service named TOOL_NAME-mcp, or None
    available,      \* the Deployment's Available condition
    \* ---- one deploy script process per run
    pc, IMAGE_TAG, BUILDRUN_NAME, ELAPSED, STATUS, REASON, OUTPUT_IMAGE,
    exitCode, msg,
    \* ---- history of each run (not read by the program)
    ops,            \* kinds of cluster operations issued, repeats collapsed
    reads,          \* BuildRun status reads of the wait loop
    snap,           \* Deployment and Service when the run started
    lastRun,        \* the run that started last, 0 before the first
    seq             \* the run started after a finished run, and ran alone

VARIABLES
    prog,           \* the program this behaviour executes
    \* ---- 25-build-oauth-secret-image.sh, OpenShift path
    ocBuild,        \* status.phase of the OpenShift build
    ocPc, ocIter, phase,
    jobDeleted,     \* what kubectl delete job did: "deleted", "not found",
                    \* "" before it ran
    oauthJob,       \* the oauth-secret Job exists
    chartUpgraded,  \* helm upgrade has run
    \* ---- the node readiness wait
    nodesTotal, nodesNotReady,      \* the cluster's nodes
    nodePc, nodeI, NOT_READY, TOTAL,
    \* ---- the tool detail page's status query
    toolStatus,     \* readyStatus the backend computes for the tool
    toolData,       \* query.state.data?.readyStatus, NoData before a fetch
    toolRefetch,    \* a refetch is scheduled
    toolFetches     \* fetches made so far

VARIABLES
    \* ---- ImportAgentPage: the form's state (useState)
    name, namespace, deploymentMethod, gitUrl, gitBranch, gitPath,
    selectedExample, registryType, registryNamespace, containerImage,
    imageTag, imagePullSecret, servicePorts, envVars, validated,
    \* ---- ImportAgentPage: createMutation and the router
    createStatus,   \* idle | pending | success | error
    inFlight,       \* create requests sent and not yet answered
    lastRequest,    \* the create request sent and not answered with an
                    \* error, None when there is none
    route           \* where the page navigated to, None while it is shown

VARIABLES
    \* ---- status query: one workload, its raw status and the answer
    workloadType,   \* deployment | statefulset | job
    rawStatus,      \* None when absent, else <<the status record>>
    queryResult     \* the readyStatus of the last status query, "" before

statusVars == <<workloadType, rawStatus, queryResult>>

VARIABLES
    \* ---- AgentCatalogPage: the list, the delete modal, deleteMutation
    agents,             \* the cached agent list of each namespace
    selectedNamespace,  \* the page's namespace
    deleteModalOpen, agentToDelete, deleteConfirmText,
    deleteStatus,       \* idle | pending | success | error
    deleteVariables,    \* what deleteMutation.mutate was called with
    \* ---- the backend's delete handler and the cluster it works on
    delPc,              \* idle | service | workload | builds | confirm | done
    cluster             \* per namespace and name: its Service, workload
                        \* and builds

deleteVars == <<agents, selectedNamespace, deleteModalOpen, agentToDelete, deleteConfirmText,
                deleteStatus, deleteVariables, delPc, cluster>>

VARIABLES
    \* ---- two import requests for the same (namespace, name)
    importPorts,        \* the servicePorts of each request
    importPc,           \* deployment | service | done, per request
    workload,           \* the Deployment in the cluster, None when absent
    workloadService     \* the Service in the cluster, None when absent

importVars == <<importPorts, importPc, workload, workloadService>>

formVars == <<name, namespace, deploymentMethod, gitUrl, gitBranch, gitPath,
              selectedExample, registryType, registryNamespace,
              containerImage, imageTag, imagePullSecret, servicePorts,
              envVars, validated, createStatus, inFlight,
              lastRequest, route>>

ocVars == <<ocBuild, ocPc, ocIter, phase, jobDeleted, oauthJob, chartUpgraded>>
nodeVars == <<nodesTotal, nodesNotReady, nodePc, nodeI, NOT_READY, TOTAL>>
toolVars == <<toolStatus, toolData, toolRefetch, toolFetches>>

scriptVars == <<now, build, buildRuns, deployment, service, available,
                pc, IMAGE_TAG, BUILDRUN_NAME, ELAPSED, STATUS, REASON,
                OUTPUT_IMAGE, exitCode, msg, ops, reads, snap, lastRun, seq>>

vars == <<prog, scriptVars, ocVars, nodeVars, toolVars, formVars, statusVars,
          deleteVars, importVars>>

notScript == <<prog, ocVars, nodeVars, toolVars, formVars, statusVars,
               deleteVars,
               importVars>>
notOc == <<prog, scriptVars, nodeVars, toolVars, formVars, statusVars,
           deleteVars,
           importVars>>
notNode == <<prog, scriptVars, ocVars, toolVars, formVars, statusVars,
             deleteVars,
             importVars>>
notTool == <<prog, scriptVars, ocVars, nodeVars, formVars, statusVars,
             deleteVars,
             importVars>>
notForm == <<prog, scriptVars, ocVars, nodeVars, toolVars, statusVars,
             deleteVars,
             importVars>>
notStatus == <<prog, scriptVars, ocVars, nodeVars, toolVars, formVars,
               deleteVars,
               importVars>>
notImport == <<prog, scriptVars, ocVars, nodeVars, toolVars, formVars,
               statusVars, deleteVars>>
notDelete == <<prog, scriptVars, ocVars, nodeVars, toolVars, formVars,
               statusVars,
               importVars>>

(***************************************************************************)
(* Resource descriptors of the script's heredocs.                          *)
(***************************************************************************)
\* output.image of the Build: ${REGISTRY}/${TOOL_NAME}:${IMAGE_TAG}
OutputImageOf(tag) == <<REGISTRY, TOOL_NAME, tag>>

BuildSpec(tag) ==
    [name |-> TOOL_NAME, strategy |-> "buildah-insecure",
     image |-> OutputImageOf(tag)]

DeploymentSpec(image, run) ==
    [name |-> TOOL_NAME, replicas |-> 1, image |-> image,
     containerPort |-> 8000]

ServiceSpec ==
    [name |-> <<TOOL_NAME, "-mcp">>, type |-> "ClusterIP",
     port |-> 8000, targetPort |-> 8000, protocol |-> "TCP"]

\* kubectl create: refuses a resource that exists.
CreateOnly(existing, spec) ==
    IF existing = None THEN [res |-> <<spec>>, err |-> FALSE]
    ELSE [res |-> existing, err |-> TRUE]

\* an apply that appends the new port list to the one that exists
ApplyMergesPorts(existing, spec) ==
    [res |-> <<IF existing = None THEN spec
               ELSE [spec EXCEPT !.ports = existing[1].ports \o @]>>,
     err |-> FALSE]

\* kubectl apply: create the resource or update it to the spec, no error
\* when it exists.
Apply(existing, spec) == [res |-> <<spec>>, err |-> FALSE]

\* kubectl apply of a BuildRun: a BuildRun of that name that exists keeps
\* its status.
ApplyBuildRun(runs, runName) ==
    IF runName \in DOMAIN runs THEN runs
    ELSE [n \in DOMAIN runs \cup {runName} |->
            IF n = runName THEN [cond |-> "", image |-> None] ELSE runs[n]]

\* reason of the Succeeded condition, by its status
ReasonOf(cond) ==
    CASE cond = "True" -> "Succeeded"
      [] cond = "False" -> "BuildFailed"
      [] OTHER -> ""

\* kubectl get buildrun ... jsonpath of the Succeeded condition's status;
\* "" when the BuildRun or the condition is absent
GetStatus(runs, runName) == IF runName \in DOMAIN runs THEN runs[runName].cond ELSE ""

GetImage(runs, runName) == IF runName \in DOMAIN runs THEN runs[runName].image ELSE None

Active(p) == pc[p] \notin {"start", "exit_failed", "exit_timeout", "exit_apply", "done"}

AddOp(p, op) ==
    IF ops[p] # <<>> /\ ops[p][Len(ops[p])] = op THEN ops
    ELSE [ops EXCEPT ![p] = Append(@, op)]

(***************************************************************************)
(* The deploy script, steps 1 to 6.                                        *)
(***************************************************************************)
\* BUILDRUN_NAME="${TOOL_NAME}-run-$(date +%s)": the suffix
BuildRunName(clock, run) == clock

\* The script is straight-line code: the step that follows each step.
FollowingServiceFirst(step) ==
    CASE step = "start" -> "step2"
      [] step = "step2" -> "poll"
      [] step = "poll" -> "step4"
      [] step = "step4" -> "step5b"
      [] step = "step5b" -> "step5"
      [] step = "step5" -> "step6"
      [] step = "step6" -> "done"

Following(step) ==
    CASE step = "start" -> "step2"
      [] step = "step2" -> "poll"
      [] step = "poll" -> "step4"
      [] step = "step4" -> "step5"
      [] step = "step5" -> "step5b"
      [] step = "step5b" -> "step6"
      [] step = "step6" -> "done"

\* lines 126-129, the test after the loop: the next position of the script
AfterLoop(elapsed) ==
    IF elapsed >= TIMEOUT THEN "exit_timeout" ELSE Following("poll")

\* lines 111-124, the branch taken on the status read, the sleep and the
\* loop test: the next position of the script
\* a failed BuildRun sends the script back to step 2 for another BuildRun
AfterReadRetriesOnFail(status, elapsed) ==
    IF status = "True" THEN AfterLoop(elapsed)
    ELSE IF status = "False" THEN "step2"
    ELSE IF elapsed + POLL_INTERVAL < TIMEOUT THEN "poll"
    ELSE AfterLoop(elapsed + POLL_INTERVAL)

\* the sleep and the addition come before the test of the status
AfterReadSleepsFirst(status, elapsed) ==
    IF status = "True" THEN AfterLoop(elapsed + POLL_INTERVAL)
    ELSE IF status = "False" THEN "exit_failed"
    ELSE IF elapsed + POLL_INTERVAL < TIMEOUT THEN "poll"
    ELSE AfterLoop(elapsed + POLL_INTERVAL)

AfterReadNoFailExit(status, elapsed) ==
    IF status \in {"True", "False"} THEN AfterLoop(elapsed)
    ELSE IF elapsed + POLL_INTERVAL < TIMEOUT THEN "poll"
    ELSE AfterLoop(elapsed + POLL_INTERVAL)

AfterRead(status, elapsed) ==
    IF status = "True" THEN AfterLoop(elapsed)
    ELSE IF status = "False" THEN "exit_failed"
    ELSE IF elapsed + POLL_INTERVAL < TIMEOUT THEN "poll"
    ELSE AfterLoop(elapsed + POLL_INTERVAL)

Step1ApplyBuild(p) ==
    /\ prog = "deploy"
    /\ pc[p] = "start"
    /\ LET r == Apply(build, BuildSpec(IMAGE_TAG[p])) IN
        /\ build' = r.res
        /\ pc' = [pc EXCEPT ![p] = IF r.err THEN "exit_apply" ELSE Following("start")]
        /\ exitCode' = [exitCode EXCEPT ![p] = IF r.err THEN 1 ELSE Unset]
    /\ msg' = [msg EXCEPT ![p] = <<>>]
    /\ ops' = [ops EXCEPT ![p] = <<"applyBuild">>]
    /\ snap' = [snap EXCEPT ![p] = [dep |-> deployment, svc |-> service]]
    /\ lastRun' = p
    /\ seq' = [q \in Runs |->
                /\ q = p
                /\ lastRun \in Runs
                /\ pc[lastRun] = "done"
                /\ IMAGE_TAG[lastRun] = IMAGE_TAG[p]
                /\ \A r \in Runs \ {p} : ~Active(r)]
    /\ UNCHANGED <<now, buildRuns, deployment, service, available, IMAGE_TAG,
                   BUILDRUN_NAME, ELAPSED, STATUS, REASON, OUTPUT_IMAGE, reads>>
    /\ UNCHANGED notScript

Step2CreateBuildRun(p) ==
    /\ prog = "deploy"
    /\ pc[p] = "step2"
    /\ BUILDRUN_NAME' = [BUILDRUN_NAME EXCEPT ![p] = BuildRunName(now, p)]
    /\ buildRuns' = ApplyBuildRun(buildRuns, BuildRunName(now, p))
    /\ ELAPSED' = [ELAPSED EXCEPT ![p] = 0]
    /\ pc' = [pc EXCEPT ![p] = Following("step2")]
    /\ ops' = AddOp(p, "createBuildRun")
    /\ UNCHANGED <<now, build, deployment, service, available, IMAGE_TAG,
                   STATUS, REASON, OUTPUT_IMAGE, exitCode, msg, reads, snap,
                   lastRun, seq>>
    /\ UNCHANGED notScript

\* One iteration of the wait loop, lines 107-124, and the test after it,
\* lines 126-129.  STATUS is read at line 108.  REASON is read by a second
\* get at line 109 and used only in the echoed text: a terminal condition
\* does not change, so after STATUS = False that get returns its reason.
\* A process that exits leaves its exit status and its output; its shell
\* variables are gone.  ELAPSED is not read after the test at line 126, and
\* the model forgets it, and the count of reads, after step 4.  reads
\* counts the reads that were followed by a sleep.
Step3Poll(p) ==
    /\ prog = "deploy"
    /\ pc[p] = "poll"
    /\ ELAPSED[p] < TIMEOUT
    /\ LET status == GetStatus(buildRuns, BUILDRUN_NAME[p])
           next == AfterRead(status, ELAPSED[p])
           exits == next \in {"exit_failed", "exit_timeout"} IN
        /\ STATUS' = [STATUS EXCEPT ![p] = IF exits THEN "" ELSE status]
        /\ REASON' = [REASON EXCEPT ![p] = IF exits THEN "" ELSE ReasonOf(status)]
        /\ pc' = [pc EXCEPT ![p] = next]
        /\ ELAPSED' = [ELAPSED EXCEPT ![p] =
                         CASE next = "poll" -> @ + POLL_INTERVAL
                           [] next = Following("poll") -> @
                           [] OTHER -> 0]
        /\ exitCode' = [exitCode EXCEPT ![p] =
                         CASE next = "exit_failed" -> ExitBuildFailed
                           [] next = "exit_timeout" -> ExitTimeout
                           [] OTHER -> @]
        /\ msg' = [msg EXCEPT ![p] =
                         CASE next = "exit_failed" -> <<MsgFailed, ReasonOf(status)>>
                           [] next = "exit_timeout" -> <<MsgTimeout>>
                           [] OTHER -> @]
        /\ BUILDRUN_NAME' = [BUILDRUN_NAME EXCEPT ![p] = IF exits THEN Unset ELSE @]
        /\ reads' = [reads EXCEPT ![p] =
                         CASE next = "poll" -> @ + 1
                           [] next = Following("poll") -> @
                           [] OTHER -> 0]
    /\ ops' = AddOp(p, "getBuildRun")
    /\ UNCHANGED <<now, build, buildRuns, deployment, service, available,
                   IMAGE_TAG, OUTPUT_IMAGE, snap, lastRun, seq>>
    /\ UNCHANGED notScript

\* lines 134-135: OUTPUT_IMAGE=$(kubectl get buildrun ... status.output.image)
Step4OutputImage(p) ==
    /\ prog = "deploy"
    /\ pc[p] = "step4"
    /\ OUTPUT_IMAGE' = [OUTPUT_IMAGE EXCEPT ![p] = GetImage(buildRuns, BUILDRUN_NAME[p])]
    /\ pc' = [pc EXCEPT ![p] = Following("step4")]
    /\ ops' = AddOp(p, "getBuildRun")
    /\ ELAPSED' = [ELAPSED EXCEPT ![p] = 0]
    /\ reads' = [reads EXCEPT ![p] = 0]
    /\ UNCHANGED <<now, build, buildRuns, deployment, service, available,
                   IMAGE_TAG, BUILDRUN_NAME, STATUS, REASON,
                   exitCode, msg, snap, lastRun, seq>>
    /\ UNCHANGED notScript

\* set -e: a failing kubectl apply ends the script with its status
ApplyStep(p, result, next) ==
    /\ pc' = [pc EXCEPT ![p] = IF result.err THEN "exit_apply" ELSE next]
    /\ exitCode' = [exitCode EXCEPT ![p] = IF result.err THEN 1 ELSE @]
    /\ BUILDRUN_NAME' = [BUILDRUN_NAME EXCEPT ![p] = IF result.err THEN Unset ELSE @]
    /\ ELAPSED' = [ELAPSED EXCEPT ![p] = IF result.err THEN 0 ELSE @]
    /\ STATUS' = [STATUS EXCEPT ![p] = IF result.err THEN "" ELSE @]
    /\ REASON' = [REASON EXCEPT ![p] = IF result.err THEN "" ELSE @]
    /\ OUTPUT_IMAGE' = [OUTPUT_IMAGE EXCEPT ![p] = IF result.err THEN None ELSE @]
    /\ reads' = [reads EXCEPT ![p] = IF result.err THEN 0 ELSE @]

Step5ApplyDeployment(p) ==
    /\ prog = "deploy"
    /\ pc[p] = "step5"
    /\ LET r == Apply(deployment, DeploymentSpec(OUTPUT_IMAGE[p], BUILDRUN_NAME[p])) IN
        /\ deployment' = r.res
        /\ ApplyStep(p, r, Following("step5"))
    /\ ops' = AddOp(p, "applyDeployment")
    /\ UNCHANGED <<now, build, buildRuns, service, available, IMAGE_TAG, msg,
                   snap, lastRun, seq>>
    /\ UNCHANGED notScript

Step5bApplyService(p) ==
    /\ prog = "deploy"
    /\ pc[p] = "step5b"
    /\ LET r == Apply(service, ServiceSpec) IN
        /\ service' = r.res
        /\ ApplyStep(p, r, Following("step5b"))
    /\ ops' = AddOp(p, "applyService")
    /\ UNCHANGED <<now, build, buildRuns, deployment, available, IMAGE_TAG,
                   msg, snap, lastRun, seq>>
    /\ UNCHANGED notScript

\* kubectl wait --for=condition=available --timeout=120s || { warning }, then
\* the closing echo lines: the script ends with status 0 either way.
Step6WaitDeployment(p) ==
    /\ prog = "deploy"
    /\ pc[p] = "step6"
    /\ pc' = [pc EXCEPT ![p] = Following("step6")]
    /\ exitCode' = [exitCode EXCEPT ![p] = 0]
    /\ msg' = [msg EXCEPT ![p] =
                 <<IF available THEN "condition met" ELSE MsgWaitWarning,
                   MsgComplete>>]
    /\ ops' = AddOp(p, "waitDeployment")
    /\ BUILDRUN_NAME' = [BUILDRUN_NAME EXCEPT ![p] = Unset]
    /\ ELAPSED' = [ELAPSED EXCEPT ![p] = 0]
    /\ STATUS' = [STATUS EXCEPT ![p] = ""]
    /\ REASON' = [REASON EXCEPT ![p] = ""]
    /\ OUTPUT_IMAGE' = [OUTPUT_IMAGE EXCEPT ![p] = None]
    /\ reads' = [reads EXCEPT ![p] = 0]
    /\ UNCHANGED <<now, build, buildRuns, deployment, service, available,
                   IMAGE_TAG, snap, lastRun, seq>>
    /\ UNCHANGED notScript

(***************************************************************************)
(* The environment of the script: the clock, the Shipwright build          *)
(* controller and the Deployment controller.                               *)
(***************************************************************************)
Tick ==
    /\ prog = "deploy"
    /\ now < MaxClock
    /\ now' = now + 1
    /\ UNCHANGED <<build, buildRuns, deployment, service, available, pc,
                   IMAGE_TAG, BUILDRUN_NAME, ELAPSED, STATUS, REASON,
                   OUTPUT_IMAGE, exitCode, msg, ops, reads, snap, lastRun, seq>>
    /\ UNCHANGED notScript

\* The build controller gives a BuildRun its terminal Succeeded condition,
\* True (with the Build's output image) or False; a terminal one stays.
\* "" stands for every status that is neither: no condition yet, or
\* Unknown while the build runs; the script takes the same branch for both.
BuildProgress ==
    /\ prog = "deploy"
    /\ \E n \in DOMAIN buildRuns, c \in {"True", "False"} :
        /\ buildRuns[n].cond = ""
        /\ buildRuns' = [buildRuns EXCEPT ![n] =
                           [cond |-> c,
                            image |-> IF c = "True" /\ build # None
                                      THEN build[1].image ELSE None]]
    /\ UNCHANGED <<now, build, deployment, service, available, pc,
                   IMAGE_TAG, BUILDRUN_NAME, ELAPSED, STATUS, REASON,
                   OUTPUT_IMAGE, exitCode, msg, ops, reads, snap, lastRun, seq>>
    /\ UNCHANGED notScript

DeploymentAvailable ==
    /\ prog = "deploy"
    /\ deployment # None
    /\ ~available
    /\ available' = TRUE
    /\ UNCHANGED <<now, build, buildRuns, deployment, service, pc,
                   IMAGE_TAG, BUILDRUN_NAME, ELAPSED, STATUS, REASON,
                   OUTPUT_IMAGE, exitCode, msg, ops, reads, snap, lastRun, seq>>
    /\ UNCHANGED notScript

(***************************************************************************)
(* 25-build-oauth-secret-image.sh, OpenShift path: the build is started,   *)
(* its phase polled, then the oauth-secret Job deleted and the chart       *)
(* upgraded.                                                               *)
(***************************************************************************)
\* for _ in {1..120}
OC_POLLS == 120

OcTerminalFailure == {"Failed", "Error", "Cancelled"}

\* the loop without the test that follows it: after the last poll the
\* script goes on
OcPollNoTimeoutExit ==
    /\ prog = "ocbuild"
    /\ ocPc = "poll"
    /\ ocIter < OC_POLLS
    /\ \E read \in {ocBuild, "Unknown"} :
        /\ phase' = read
        /\ ocIter' = ocIter + 1
        /\ ocPc' = IF read = "Complete" THEN "delete_job"
                   ELSE IF read \in OcTerminalFailure THEN "exit_failed"
                   ELSE IF ocIter + 1 < OC_POLLS THEN "poll"
                   ELSE "delete_job"
    /\ UNCHANGED <<ocBuild, jobDeleted, oauthJob, chartUpgraded>>
    /\ UNCHANGED notOc

\* One iteration of the loop, and the test after it.  oc get ... || echo
\* "Unknown": the read returns the phase, or Unknown when oc fails.
OcPoll ==
    /\ prog = "ocbuild"
    /\ ocPc = "poll"
    /\ ocIter < OC_POLLS
    /\ \E read \in {ocBuild, "Unknown"} :
        /\ phase' = read
        /\ ocIter' = ocIter + 1
        /\ ocPc' = IF read = "Complete" THEN "delete_job"
                   ELSE IF read \in OcTerminalFailure THEN "exit_failed"
                   ELSE IF ocIter + 1 < OC_POLLS THEN "poll"
                   ELSE "exit_timeout"
    /\ UNCHANGED <<ocBuild, jobDeleted, oauthJob, chartUpgraded>>
    /\ UNCHANGED notOc

\* kubectl delete job without --ignore-not-found: a Job that is absent
\* makes kubectl fail, and set -e ends the script
OcDeleteJobStrict ==
    /\ prog = "ocbuild"
    /\ ocPc = "delete_job"
    /\ jobDeleted' = IF oauthJob THEN "deleted" ELSE "not found"
    /\ oauthJob' = FALSE
    /\ ocPc' = IF oauthJob THEN "helm_upgrade" ELSE "exit_failed"
    /\ UNCHANGED <<ocBuild, ocIter, phase, chartUpgraded>>
    /\ UNCHANGED notOc

\* kubectl delete job "$JOB_NAME" --ignore-not-found: status 0 whether or
\* not the Job exists
OcDeleteJob ==
    /\ prog = "ocbuild"
    /\ ocPc = "delete_job"
    /\ jobDeleted' = IF oauthJob THEN "deleted" ELSE "not found"
    /\ oauthJob' = FALSE
    /\ ocPc' = "helm_upgrade"
    /\ UNCHANGED <<ocBuild, ocIter, phase, chartUpgraded>>
    /\ UNCHANGED notOc

\* helm upgrade kagenti ... || true: the chart creates the Job anew, or helm
\* fails and the script goes on
OcHelmUpgrade ==
    /\ prog = "ocbuild"
    /\ ocPc = "helm_upgrade"
    /\ chartUpgraded' = TRUE
    /\ oauthJob' \in {TRUE, oauthJob}
    /\ ocPc' = "wait_job"
    /\ UNCHANGED <<ocBuild, ocIter, phase, jobDeleted>>
    /\ UNCHANGED notOc

\* The OpenShift build moves from New to Running and to a final phase.
OcBuildProgress ==
    /\ prog = "ocbuild"
    /\ \E next \in {"Running", "Complete"} \cup OcTerminalFailure :
        /\ \/ ocBuild = "New"
           \/ ocBuild = "Running" /\ next # "Running"
        /\ ocBuild' = next
    /\ UNCHANGED <<ocPc, ocIter, phase, jobDeleted, oauthJob, chartUpgraded>>
    /\ UNCHANGED notOc

(***************************************************************************)
(* The wait for the cluster's nodes.                                       *)
(***************************************************************************)
MAX_RETRIES == 60

\* Nodes the model's cluster may have.
MaxNodes == 2

\* NOT_READY and TOTAL as the two pipelines leave them; 999 and 0 when
\* kubectl fails (set -o pipefail, then the numeric test).
NodeReadings ==
    {<<nodesNotReady, nodesTotal>>, <<999, 0>>}

NodePoll ==
    /\ prog = "nodes"
    /\ nodePc = "poll"
    /\ \E r \in NodeReadings :
        /\ NOT_READY' = r[1]
        /\ TOTAL' = r[2]
        /\ IF r[1] = 0 /\ r[2] > 0
           THEN nodePc' = "ready" /\ nodeI' = nodeI
           ELSE IF nodeI = MAX_RETRIES
           THEN nodePc' = "exit_timeout" /\ nodeI' = nodeI
           ELSE nodePc' = "poll" /\ nodeI' = nodeI + 1
    /\ UNCHANGED <<nodesTotal, nodesNotReady>>
    /\ UNCHANGED notNode

\* Nodes join, leave, become ready or not ready.
NodeChange ==
    /\ prog = "nodes"
    /\ \E t \in 0..MaxNodes :
        \E n \in 0..t :
            /\ <<t, n>> # <<nodesTotal, nodesNotReady>>
            /\ nodesTotal' = t
            /\ nodesNotReady' = n
    /\ UNCHANGED <<nodePc, nodeI, NOT_READY, TOTAL>>
    /\ UNCHANGED notNode

(***************************************************************************)
(* The tool detail page: useQuery(['tool', namespace, name]) with          *)
(* refetchInterval.                                                        *)
(***************************************************************************)
\* Fetches of the tool page the model follows.
MaxFetches == 125

NoData == "(no data)"

ReadyStatuses ==
    {"Ready", "Not Ready", "Progressing", "Failed", "Unknown"}

\* refetchInterval: (query) => readyStatus === 'Ready' ? false : 5000,
\* with readyStatus = query.state.data?.readyStatus || ''; 0 is false
RefetchIntervalStopsOnFailed(data) ==
    IF data \in {"Ready", "Failed"} THEN 0 ELSE 5000

RefetchIntervalAlways(data) == 5000

RefetchInterval(data) ==
    LET readyStatus == IF data = NoData THEN "" ELSE data
    IN  IF readyStatus = "Ready" THEN 0 ELSE 5000

\* The first fetch when the page mounts, and every scheduled refetch.
\* The response carries the backend's readyStatus, or none ("").
ToolFetch ==
    /\ prog = "toolpage"
    /\ toolFetches = 0 \/ toolRefetch
    /\ toolFetches < MaxFetches
    /\ \E response \in {toolStatus, ""} :
        /\ toolData' = response
        /\ toolRefetch' = (RefetchInterval(response) # 0)
    /\ toolFetches' = toolFetches + 1
    /\ UNCHANGED toolStatus
    /\ UNCHANGED notTool

\* A fetch that fails keeps the data of the last successful one.
ToolFetchError ==
    /\ prog = "toolpage"
    /\ toolFetches = 0 \/ toolRefetch
    /\ toolFetches < MaxFetches
    /\ toolRefetch' = (RefetchInterval(toolData) # 0)
    /\ toolFetches' = toolFetches + 1
    /\ UNCHANGED <<toolStatus, toolData>>
    /\ UNCHANGED notTool

\* The workload's status changes in the cluster.
ToolStatusChange ==
    /\ prog = "toolpage"
    /\ \E st \in ReadyStatuses \ {toolStatus} : toolStatus' = st
    /\ UNCHANGED <<toolData, toolRefetch, toolFetches>>
    /\ UNCHANGED notTool

(***************************************************************************)
(* ImportAgentPage (ToolCatalogPage.tsx, lines 448-1629).  Names, paths    *)
(* and images are sequences of characters, "" is <<>>.                     *)
(***************************************************************************)
\* Service ports and environment variables the form may hold.
MaxPorts == 3

MaxEnv == 2

Lower == {"a", "b", "c", "d", "e", "f", "g", "h", "i", "j", "k", "l", "m",
          "n", "o", "p", "q", "r", "s", "t", "u", "v", "w", "x", "y", "z"}

Digit == {"0", "1", "2", "3", "4", "5", "6", "7", "8", "9"}

UpperOf ==
    [c \in Lower |->
        CASE c = "a" -> "A" [] c = "b" -> "B" [] c = "c" -> "C"
          [] c = "d" -> "D" [] c = "e" -> "E" [] c = "f" -> "F"
          [] c = "g" -> "G" [] c = "h" -> "H" [] c = "i" -> "I"
          [] c = "j" -> "J" [] c = "k" -> "K" [] c = "l" -> "L"
          [] c = "m" -> "M" [] c = "n" -> "N" [] c = "o" -> "O"
          [] c = "p" -> "P" [] c = "q" -> "Q" [] c = "r" -> "R"
          [] c = "s" -> "S" [] c = "t" -> "T" [] c = "u" -> "U"
          [] c = "v" -> "V" [] c = "w" -> "W" [] c = "x" -> "X"
          [] c = "y" -> "Y" [] c = "z" -> "Z"]

\* String.prototype.toLowerCase, one character
LowerChar(c) ==
    IF \E l \in Lower : UpperOf[l] = c
    THEN CHOOSE l \in Lower : UpperOf[l] = c
    ELSE c

\* .replace(/_/g, '-').toLowerCase()
Normalize(str) ==
    [i \in 1..Len(str) |-> IF str[i] = "_" THEN "-" ELSE LowerChar(str[i])]

SeparatorsAt(str, sep) == {i \in 1..Len(str) : str[i] = sep}

Max(S) == CHOOSE x \in S : \A y \in S : y <= x

Min(S) == CHOOSE x \in S : \A y \in S : x <= y

\* parts = str.split(sep); parts[parts.length - 1]
LastPart(str, sep) ==
    IF SeparatorsAt(str, sep) = {} THEN str
    ELSE SubSeq(str, Max(SeparatorsAt(str, sep)) + 1, Len(str))

\* str.split(sep)[0]
FirstPart(str, sep) ==
    IF SeparatorsAt(str, sep) = {} THEN str
    ELSE SubSeq(str, 1, Min(SeparatorsAt(str, sep)) - 1)

\* the auto name of handleExampleChange and handlePathChange
AutoNameOfPath(path) == Normalize(LastPart(path, "/"))

\* the auto name of handleImageChange
AutoNameOfImage(image) == Normalize(FirstPart(LastPart(image, "/"), ":"))

\* getNameFromPath, lines 534-545
GetNameFromPath(method, image, path, example) ==
    IF method = "image" THEN AutoNameOfImage(image)
    ELSE LET pth == IF path # <<>> THEN path ELSE example
         IN  IF pth = <<>> THEN <<>> ELSE AutoNameOfPath(pth)

\* const finalName = name || getNameFromPath()
FinalName ==
    IF name # <<>> THEN name
    ELSE GetNameFromPath(deploymentMethod, containerImage, gitPath, selectedExample)

\* /^[a-z0-9][a-z0-9-]*[a-z0-9]$|^[a-z0-9]$/.test(str)
NameRegex(str) ==
    /\ Len(str) >= 1
    /\ str[1] \in Lower \cup Digit
    /\ str[Len(str)] \in Lower \cup Digit
    /\ \A i \in 1..Len(str) : str[i] \in Lower \cup Digit \cup {"-"}

\* validateForm, lines 706-756: the new validated record; a key that is
\* not set is "default"
NewValidated ==
    [name |-> IF FinalName = <<>> THEN "error"
              ELSE IF ~NameRegex(FinalName) THEN "error"
              ELSE "success",
     gitUrl |-> IF deploymentMethod # "source" THEN "default"
                ELSE IF gitUrl = "" THEN "error" ELSE "success",
     gitPath |-> IF deploymentMethod # "source" THEN "default"
                 ELSE IF gitPath = <<>> /\ selectedExample = <<>> THEN "error"
                 ELSE "success",
     registryNamespace |->
                 IF deploymentMethod = "source" /\ registryType # "local"
                    /\ registryNamespace = ""
                 THEN "error" ELSE "default",
     containerImage |-> IF deploymentMethod = "source" THEN "default"
                        ELSE IF containerImage = <<>> THEN "error"
                        ELSE "success"]

\* validateForm's result: isValid
ValidateForm == \A k \in DOMAIN NewValidated : NewValidated[k] # "error"

\* envVars.filter((ev) => ev.name && (ev.value || ev.valueFrom))
EnvVarSent(ev) == ev.name # "" /\ (ev.value # "" \/ ev.valueFrom # "none")

FilteredEnvVars == SelectSeq(envVars, EnvVarSent)

\* a request for an image that still carries the source fields of the form
CreateRequestKeepsSource ==
    [name |-> FinalName,
     namespace |-> namespace,
     gitUrl |-> gitUrl,
     gitPath |-> IF gitPath # <<>> THEN gitPath ELSE selectedExample,
     gitBranch |-> gitBranch,
     imageTag |-> imageTag,
     envVars |-> FilteredEnvVars,
     deploymentMethod |-> deploymentMethod,
     containerImage |-> IF deploymentMethod = "image"
                        THEN <<containerImage \o <<":">> \o imageTag>>
                        ELSE None,
     imagePullSecret |-> None,
     servicePorts |-> servicePorts]

\* the argument of createMutation.mutate, lines 778-825; fields the model
\* does not follow (protocol, framework, workloadType, ...) are left out;
\* an undefined field is None
CreateRequest ==
    IF deploymentMethod = "source"
    THEN [name |-> FinalName,
          namespace |-> namespace,
          gitUrl |-> gitUrl,
          gitPath |-> IF gitPath # <<>> THEN gitPath ELSE selectedExample,
          gitBranch |-> gitBranch,
          imageTag |-> <<"v", "0", ".", "0", ".", "1">>,
          envVars |-> FilteredEnvVars,
          deploymentMethod |-> "source",
          containerImage |-> None,
          imagePullSecret |-> None,
          servicePorts |-> servicePorts]
    ELSE [name |-> FinalName,
          namespace |-> namespace,
          gitUrl |-> "",
          gitPath |-> <<>>,
          gitBranch |-> "",
          imageTag |-> imageTag,
          envVars |-> FilteredEnvVars,
          deploymentMethod |-> "image",
          containerImage |-> <<IF imageTag # <<>>
                               THEN containerImage \o <<":">> \o imageTag
                               ELSE containerImage>>,
          imagePullSecret |-> IF imagePullSecret # "" THEN <<imagePullSecret>>
                              ELSE None,
          servicePorts |-> servicePorts]

Shown == prog = "import" /\ route = None

\* ---- inputs of the model
Rep(c, n) == [i \in 1..n |-> c]

NameInputs ==
    {<<>>, <<"a", "-", "b">>, <<"-", "a">>, <<"A", "b">>, <<"a", "_", "b">>,
     Rep("a", 63), Rep("a", 64)}

\* AGENT_<<"a", "2", "a", "/", "g", "e", "n", "e", "r", "i", "c", "_", "a", "g", "e", "n", "t">>S, one entry and the empty one
ExampleInputs == {<<>>, <<"a", "2", "a", "/", "g", "e", "n", "e", "r", "i", "c", "_", "a", "g", "e", "n", "t">>}

\* the path of the weather tool of the deploy script, and other paths
WeatherToolPath ==
    <<"m", "c", "p", "/", "w", "e", "a", "t", "h", "e", "r", "_", "t", "o", "o", "l">>

PathInputs ==
    {<<>>, <<"m", "/", "w", "_", "T">>, <<"m", "/">>, <<"m", ".", "t">>,
     WeatherToolPath}

ImageInputs ==
    {<<>>, <<"r", "/", "m", "_", "i", ":", "1">>, <<"r", "/", "-", "x">>}

\* ---- field handlers
\* onChange={(_e, value) => setName(value)}
SetName(value) ==
    /\ Shown
    /\ name' = value
    /\ UNCHANGED <<namespace, deploymentMethod, gitUrl, gitBranch, gitPath,
                   selectedExample, registryType, registryNamespace,
                   containerImage, imageTag, imagePullSecret, servicePorts,
                   envVars, validated, createStatus, inFlight, lastRequest, route>>
    /\ UNCHANGED notForm

\* NamespaceSelector onNamespaceChange={setNamespace}, line 862
SetImportNamespace(ns) ==
    /\ Shown
    /\ namespace' = ns
    /\ UNCHANGED <<name, deploymentMethod, gitUrl, gitBranch, gitPath,
                   selectedExample, registryType, registryNamespace,
                   containerImage, imageTag, imagePullSecret, servicePorts,
                   envVars, validated, createStatus, inFlight, lastRequest,
                   route>>
    /\ UNCHANGED notForm

SetDeploymentMethod(method) ==
    /\ Shown
    /\ deploymentMethod' = method
    /\ UNCHANGED <<name, namespace, gitUrl, gitBranch, gitPath,
                   selectedExample, registryType, registryNamespace,
                   containerImage, imageTag, imagePullSecret, servicePorts,
                   envVars, validated, createStatus, inFlight, lastRequest, route>>
    /\ UNCHANGED notForm

SetGitUrl(value) ==
    /\ Shown
    /\ gitUrl' = value
    /\ UNCHANGED <<name, namespace, deploymentMethod, gitBranch, gitPath,
                   selectedExample, registryType, registryNamespace,
                   containerImage, imageTag, imagePullSecret, servicePorts,
                   envVars, validated, createStatus, inFlight, lastRequest, route>>
    /\ UNCHANGED notForm

HandleExampleChange(value) ==
    /\ Shown
    /\ selectedExample' = value
    /\ gitPath' = IF value # <<>> THEN value ELSE gitPath
    /\ name' = IF value # <<>> /\ name = <<>> THEN AutoNameOfPath(value) ELSE name
    /\ UNCHANGED <<namespace, deploymentMethod, gitUrl, gitBranch,
                   registryType, registryNamespace, containerImage, imageTag,
                   imagePullSecret, servicePorts, envVars, validated,
                   createStatus, inFlight, lastRequest, route>>
    /\ UNCHANGED notForm

HandlePathChange(value) ==
    /\ Shown
    /\ gitPath' = value
    /\ selectedExample' = <<>>
    /\ name' = IF value # <<>> /\ name = <<>> THEN AutoNameOfPath(value) ELSE name
    /\ UNCHANGED <<namespace, deploymentMethod, gitUrl, gitBranch,
                   registryType, registryNamespace, containerImage, imageTag,
                   imagePullSecret, servicePorts, envVars, validated,
                   createStatus, inFlight, lastRequest, route>>
    /\ UNCHANGED notForm

HandleImageChange(value) ==
    /\ Shown
    /\ containerImage' = value
    /\ name' = IF value # <<>> /\ name = <<>> THEN AutoNameOfImage(value) ELSE name
    /\ UNCHANGED <<namespace, deploymentMethod, gitUrl, gitBranch, gitPath,
                   selectedExample, registryType, registryNamespace, imageTag,
                   imagePullSecret, servicePorts, envVars, validated,
                   createStatus, inFlight, lastRequest, route>>
    /\ UNCHANGED notForm

\* ---- service port handlers, lines 661-682
DefaultPort == [name |-> "http", port |-> 8080, targetPort |-> 8000]

\* the NumberInput of a port: minus, plus, or a typed number
PortInputs(current) == {current - 1, current + 1, 8080, 8081}

RemoveAt(sq, index) ==
    [i \in 1..(Len(sq) - 1) |-> IF i < index THEN sq[i] ELSE sq[i + 1]]

AddServicePort ==
    /\ Shown
    /\ Len(servicePorts) < MaxPorts
    /\ servicePorts' = Append(servicePorts, DefaultPort)
    /\ UNCHANGED <<name, namespace, deploymentMethod, gitUrl, gitBranch,
                   gitPath, selectedExample, registryType, registryNamespace,
                   containerImage, imageTag, imagePullSecret, envVars,
                   validated, createStatus, inFlight, lastRequest, route>>
    /\ UNCHANGED notForm

\* the remove button is disabled while one port is left (line 1419)
RemoveServicePort(index) ==
    /\ Shown
    /\ Len(servicePorts) > 1
    /\ index \in 1..Len(servicePorts)
    /\ servicePorts' = RemoveAt(servicePorts, index)
    /\ UNCHANGED <<name, namespace, deploymentMethod, gitUrl, gitBranch,
                   gitPath, selectedExample, registryType, registryNamespace,
                   containerImage, imageTag, imagePullSecret, envVars,
                   validated, createStatus, inFlight, lastRequest, route>>
    /\ UNCHANGED notForm

UpdateServicePort(index, value) ==
    /\ Shown
    /\ index \in 1..Len(servicePorts)
    /\ value \in 8079..8082
    /\ servicePorts' = [servicePorts EXCEPT ![index].port = value]
    /\ UNCHANGED <<name, namespace, deploymentMethod, gitUrl, gitBranch,
                   gitPath, selectedExample, registryType, registryNamespace,
                   containerImage, imageTag, imagePullSecret, envVars,
                   validated, createStatus, inFlight, lastRequest, route>>
    /\ UNCHANGED notForm

\* ---- environment variable handlers, lines 595-642
EnvNames == {"", "A", "B"}

EnvValues == {"", "v"}

\* the lists EnvImportModal may hand over
ImportedLists ==
    {sq \in UNION {[1..n -> [name : {"A", "B"}, value : {"v"}, valueFrom : {"none"}]]
                    : n \in 1..2} : TRUE}

AddEnvVar ==
    /\ Shown
    /\ Len(envVars) < MaxEnv
    /\ envVars' = Append(envVars, [name |-> "", value |-> "", valueFrom |-> "none"])
    /\ UNCHANGED <<name, namespace, deploymentMethod, gitUrl, gitBranch,
                   gitPath, selectedExample, registryType, registryNamespace,
                   containerImage, imageTag, imagePullSecret, servicePorts,
                   validated, createStatus, inFlight, lastRequest, route>>
    /\ UNCHANGED notForm

RemoveEnvVar(index) ==
    /\ Shown
    /\ index \in 1..Len(envVars)
    /\ envVars' = RemoveAt(envVars, index)
    /\ UNCHANGED <<name, namespace, deploymentMethod, gitUrl, gitBranch,
                   gitPath, selectedExample, registryType, registryNamespace,
                   containerImage, imageTag, imagePullSecret, servicePorts,
                   validated, createStatus, inFlight, lastRequest, route>>
    /\ UNCHANGED notForm

UpdateEnvVar(index, field, value) ==
    /\ Shown
    /\ index \in 1..Len(envVars)
    /\ envVars' = IF field = "name"
                  THEN [envVars EXCEPT ![index].name = value]
                  ELSE [envVars EXCEPT ![index].value = value]
    /\ UNCHANGED <<name, namespace, deploymentMethod, gitUrl, gitBranch,
                   gitPath, selectedExample, registryType, registryNamespace,
                   containerImage, imageTag, imagePullSecret, servicePorts,
                   validated, createStatus, inFlight, lastRequest, route>>
    /\ UNCHANGED notForm

HandleEnvVarTypeChange(index, type) ==
    /\ Shown
    /\ index \in 1..Len(envVars)
    /\ envVars' = [envVars EXCEPT ![index] =
                     [name |-> envVars[index].name, value |-> "",
                      valueFrom |-> IF type = "value" THEN "none" ELSE type]]
    /\ UNCHANGED <<name, namespace, deploymentMethod, gitUrl, gitBranch,
                   gitPath, selectedExample, registryType, registryNamespace,
                   containerImage, imageTag, imagePullSecret, servicePorts,
                   validated, createStatus, inFlight, lastRequest, route>>
    /\ UNCHANGED notForm

NotExisting(ev) == \A i \in 1..Len(envVars) : envVars[i].name # ev.name

\* newVars = importedVars.filter(v => !existingNames.has(v.name))
MergeImported(importedVars) == envVars \o SelectSeq(importedVars, NotExisting)

HandleImportEnvVars(importedVars) ==
    /\ Shown
    /\ Len(MergeImported(importedVars)) <= MaxEnv
    /\ envVars' = MergeImported(importedVars)
    /\ UNCHANGED <<name, namespace, deploymentMethod, gitUrl, gitBranch,
                   gitPath, selectedExample, registryType, registryNamespace,
                   containerImage, imageTag, imagePullSecret, servicePorts,
                   validated, createStatus, inFlight, lastRequest, route>>
    /\ UNCHANGED notForm

\* ---- submit, lines 758-827, and createMutation, lines 519-532
\* the submit button is disabled while the mutation is pending (line 1576)
\* the submit button's isDisabled, line 1576; a disabled submit button
\* also stops the form's implicit submission
SubmitDisabledNever == FALSE

SubmitDisabled == createStatus = "pending"

HandleSubmitUnvalidated ==
    /\ Shown
    /\ ~SubmitDisabled
    /\ validated' = NewValidated
    /\ lastRequest' = <<CreateRequest>>
    /\ createStatus' = "pending"
    /\ inFlight' = inFlight + 1
    /\ UNCHANGED <<name, namespace, deploymentMethod, gitUrl, gitBranch,
                   gitPath, selectedExample, registryType, registryNamespace,
                   containerImage, imageTag, imagePullSecret, servicePorts,
                   envVars, route>>
    /\ UNCHANGED notForm

HandleSubmit ==
    /\ Shown
    /\ ~SubmitDisabled
    /\ validated' = NewValidated
    /\ IF ~ValidateForm
       THEN UNCHANGED <<lastRequest, createStatus, inFlight>>
       ELSE /\ lastRequest' = <<CreateRequest>>
            /\ createStatus' = "pending"
            /\ inFlight' = inFlight + 1
    /\ UNCHANGED <<name, namespace, deploymentMethod, gitUrl, gitBranch,
                   gitPath, selectedExample, registryType, registryNamespace,
                   containerImage, imageTag, imagePullSecret, servicePorts,
                   envVars, route>>
    /\ UNCHANGED notForm

\* onSuccess: navigate to the build page or the detail page
CreateSucceeds ==
    /\ Shown
    /\ createStatus = "pending"
    /\ createStatus' = "success"
    /\ inFlight' = inFlight - 1
    /\ route' = <<[namespace |-> namespace, name |-> FinalName,
                   build |-> deploymentMethod = "source"]>>
    /\ UNCHANGED <<name, namespace, deploymentMethod, gitUrl, gitBranch,
                   gitPath, selectedExample, registryType, registryNamespace,
                   containerImage, imageTag, imagePullSecret, servicePorts,
                   envVars, validated, lastRequest>>
    /\ UNCHANGED notForm

CreateFails ==
    /\ Shown
    /\ createStatus = "pending"
    /\ createStatus' = "error"
    /\ inFlight' = inFlight - 1
    /\ lastRequest' = None
    /\ UNCHANGED <<name, namespace, deploymentMethod, gitUrl, gitBranch,
                   gitPath, selectedExample, registryType, registryNamespace,
                   containerImage, imageTag, imagePullSecret, servicePorts,
                   envVars, validated, route>>
    /\ UNCHANGED notForm

\* the form as useState leaves it, lines 452-517
FormInit ==
    /\ name = <<>>
    /\ namespace = "team1"
    /\ deploymentMethod = "source"
    /\ gitUrl = "https://github.com/kagenti/agent-examples"
    /\ gitBranch = "main"
    /\ gitPath = <<>>
    /\ selectedExample = <<>>
    /\ registryType = "local"
    /\ registryNamespace = ""
    /\ containerImage = <<>>
    /\ imageTag = <<"l", "a", "t", "e", "s", "t">>
    /\ imagePullSecret = ""
    /\ servicePorts = <<DefaultPort>>
    /\ envVars = <<>>
    /\ validated = [k \in {"name", "gitUrl", "gitPath", "registryNamespace",
                           "containerImage"} |-> "default"]
    /\ createStatus = "idle"
    /\ inFlight = 0
    /\ lastRequest = None
    /\ route = None

(***************************************************************************)
(* The workload status normalizer: readyStatus is computed by the backend  *)
(* for every status query (types/index.ts, line 148).                      *)
(***************************************************************************)
\* Replicas a workload may ask for or have ready.
MaxReplicas == 3

WorkloadTypes == {"deployment", "statefulset", "job"}

\* the values of readyStatus
ReadyStatusType ==
    {"Ready", "Not Ready", "Progressing", "Completed", "Failed", "Running",
     "Pending", "Unknown"}

\* A raw status: the replica counts (Unset when the field is missing), a
\* rollout in progress, a condition that signals failure, the Job's
\* Complete=True and Failed=True conditions, a running pod.
FieldValues(field) ==
    IF field \in {"desiredReplicas", "readyReplicas"}
    THEN {Unset} \cup 0..MaxReplicas
    ELSE BOOLEAN

RawStatuses ==
    [desiredReplicas : FieldValues("desiredReplicas"),
     readyReplicas : FieldValues("readyReplicas"),
     rollingOut : BOOLEAN,
     failureCondition : BOOLEAN,
     complete : BOOLEAN,
     failed : BOOLEAN,
     podRunning : BOOLEAN]

Malformed(type, raw) ==
    \/ raw = None
    \/ /\ type # "job"
       /\ raw[1].desiredReplicas = Unset \/ raw[1].readyReplicas = Unset

\* the rules for a Deployment or StatefulSet, first match wins
NormalizeReplicasZeroIsReady(st) ==
    IF st.rollingOut THEN "Progressing"
    ELSE IF st.readyReplicas >= st.desiredReplicas THEN "Ready"
    ELSE IF st.readyReplicas = 0 /\ st.failureCondition THEN "Failed"
    ELSE "Not Ready"

NormalizeReplicas(st) ==
    IF st.rollingOut THEN "Progressing"
    ELSE IF st.readyReplicas >= st.desiredReplicas /\ st.desiredReplicas > 0
    THEN "Ready"
    ELSE IF st.readyReplicas = 0 /\ st.failureCondition THEN "Failed"
    ELSE "Not Ready"

\* the rules for a Job
NormalizeJob(st) ==
    IF st.complete THEN "Completed"
    ELSE IF st.failed THEN "Failed"
    ELSE IF st.podRunning THEN "Running"
    ELSE "Pending"

\* normalize(workloadType, rawStatus, conditions)
NormalizeStatusThrows(type, raw) ==
    IF raw = None THEN ""
    ELSE IF type = "job" THEN NormalizeJob(raw[1])
    ELSE NormalizeReplicas(raw[1])

NormalizeStatus(type, raw) ==
    IF Malformed(type, raw) THEN "Unknown"
    ELSE IF type = "job" THEN NormalizeJob(raw[1])
    ELSE NormalizeReplicas(raw[1])

\* a status query: readyStatus is computed anew from the raw status
StatusQuery ==
    /\ prog = "status"
    /\ queryResult' = NormalizeStatus(workloadType, rawStatus)
    /\ UNCHANGED <<workloadType, rawStatus>>
    /\ UNCHANGED notStatus

\* the cluster changes one field of the workload's status, removes the
\* workload, or creates it
RawStatusChange ==
    /\ prog = "status"
    /\ \/ rawStatus # None /\ rawStatus' = None
       \/ rawStatus = None /\ rawStatus' \in {<<st>> : st \in RawStatuses}
       \/ /\ rawStatus # None
          /\ \E field \in DOMAIN rawStatus[1] :
               \E value \in FieldValues(field) :
                 /\ value # rawStatus[1][field]
                 /\ rawStatus' = <<[rawStatus[1] EXCEPT ![field] = value]>>
    /\ UNCHANGED <<workloadType, queryResult>>
    /\ UNCHANGED notStatus

StatusInit ==
    /\ workloadType = "deployment"
    /\ rawStatus = None
    /\ queryResult = ""

(***************************************************************************)
(* Deleting an agent: AgentCatalogPage (part_000) asks the backend, the    *)
(* backend deletes the agent's resources.                                  *)
(***************************************************************************)
AgentNames == {"a", "b", "c"}

Namespaces == {"team1", "team2"}

\* the order in which the server lists the workloads of a namespace
ServerOrder == <<"b", "a", "c">>

ResourceKinds == {"service", "workload", "builds"}

\* kubectl-style delete of one resource: a resource that exists starts to
\* terminate, one that is absent stays absent; never an error
DeleteResource(state) == IF state = "present" THEN "terminating" ELSE state

AllAbsent(t) ==
    \A kind \in ResourceKinds : cluster[t.namespace][t.name][kind] = "absent"

Catalog == prog \in {"delete", "catalog"}

\* data: agents = [], the list the page shows
AgentsShown ==
    IF agents[selectedNamespace] = None THEN <<>>
    ELSE agents[selectedNamespace][1]

\* ---- the page, part_000 lines 57-108
\* NamespaceSelector onNamespaceChange={setNamespace}; the selector is
\* behind the modal while the modal is open
SetNamespace(ns) ==
    /\ Catalog
    /\ ~deleteModalOpen
    /\ selectedNamespace' = ns
    /\ UNCHANGED <<agents, deleteModalOpen, agentToDelete, deleteConfirmText,
                   deleteStatus, deleteVariables, delPc, cluster>>
    /\ UNCHANGED notDelete

\* the delete item of a row's menu
HandleDeleteClick(agent) ==
    /\ Catalog
    /\ agent.namespace = selectedNamespace
    /\ \E i \in DOMAIN AgentsShown : AgentsShown[i] = agent.name
    /\ ~deleteModalOpen
    /\ agentToDelete' = <<agent>>
    /\ deleteModalOpen' = TRUE
    /\ UNCHANGED <<agents, selectedNamespace, deleteConfirmText, deleteStatus,
                   deleteVariables, delPc, cluster>>
    /\ UNCHANGED notDelete

\* the modal state after handleCloseDeleteModal left the text as it was
CloseDeleteModalKeepsText ==
    /\ deleteModalOpen' = FALSE
    /\ agentToDelete' = None
    /\ deleteConfirmText' = deleteConfirmText

\* lines 95-99: the three setters of handleCloseDeleteModal
CloseDeleteModal ==
    /\ deleteModalOpen' = FALSE
    /\ agentToDelete' = None
    /\ deleteConfirmText' = ""

\* the modal's onClose and the Cancel button; Cancel is disabled while the
\* mutation is pending, the modal's close button is not
HandleCloseDeleteModal ==
    /\ Catalog
    /\ deleteModalOpen
    /\ CloseDeleteModal
    /\ UNCHANGED <<agents, selectedNamespace, deleteStatus, deleteVariables,
                   delPc, cluster>>
    /\ UNCHANGED notDelete

\* what the user types into the confirmation input: nothing, the name of
\* a workload, or a name in another case
ConfirmTexts == {"", "a", "b", "A"}

SetDeleteConfirmText(value) ==
    /\ Catalog
    /\ deleteModalOpen
    /\ deleteConfirmText' = value
    /\ UNCHANGED <<agents, selectedNamespace, deleteModalOpen, agentToDelete,
                   deleteStatus, deleteVariables, delPc, cluster>>
    /\ UNCHANGED notDelete

\* line 102, the test of handleDeleteConfirm
DeleteConfirmedAnyText == agentToDelete # None

DeleteConfirmed ==
    agentToDelete # None /\ deleteConfirmText = agentToDelete[1].name

\* the Delete button is disabled while the mutation is pending
HandleDeleteConfirm ==
    /\ Catalog
    /\ deleteModalOpen
    /\ deleteStatus # "pending"
    /\ IF DeleteConfirmed
       THEN /\ deleteStatus' = "pending"
            /\ deleteVariables' = <<[namespace |-> agentToDelete[1].namespace,
                                     name |-> agentToDelete[1].name]>>
            /\ delPc' = "service"
       ELSE UNCHANGED <<deleteStatus, deleteVariables, delPc>>
    /\ UNCHANGED <<agents, selectedNamespace, deleteModalOpen, agentToDelete,
                   deleteConfirmText, cluster>>
    /\ UNCHANGED notDelete

\* the updater of setQueryData, line 81:
\* (old) => old?.filter((a) => a.name !== variables.name) ?? []
Filtered(old, deleted) ==
    IF old = None THEN <<>>
    ELSE LET Kept(a) == a # deleted IN SelectSeq(old[1], Kept)

\* the cache the updater is applied to, line 80
UpdatedCacheOfPage(variables) == selectedNamespace

UpdatedCache(variables) == variables.namespace

\* onSuccess: drop the agent from the cached list, close the modal
DeleteOnSuccess ==
    /\ Catalog
    /\ deleteStatus = "pending"
    /\ delPc = "done"
    /\ deleteStatus' = "success"
    /\ delPc' = "idle"
    /\ LET variables == deleteVariables[1] IN
        agents' = [agents EXCEPT ![UpdatedCache(variables)] =
                     <<Filtered(@, variables.name)>>]
    /\ CloseDeleteModal
    /\ UNCHANGED <<selectedNamespace, deleteVariables, cluster>>
    /\ UNCHANGED notDelete

\* the request fails, wherever the backend was
DeleteFails ==
    /\ Catalog
    /\ deleteStatus = "pending"
    /\ deleteStatus' = "error"
    /\ delPc' = "idle"
    /\ UNCHANGED <<agents, selectedNamespace, deleteModalOpen, agentToDelete,
                   deleteConfirmText, deleteVariables, cluster>>
    /\ UNCHANGED notDelete

\* what agentService.list(ns) returns
Listed(ns) ==
    LET Exists(n) == cluster[ns][n].workload # "absent"
    IN  SelectSeq(ServerOrder, Exists)

\* useQuery(['agents', namespace]): the list as the server has it
ListRefetch ==
    /\ Catalog
    /\ agents' = [agents EXCEPT ![selectedNamespace] = <<Listed(selectedNamespace)>>]
    /\ UNCHANGED <<selectedNamespace, deleteModalOpen, agentToDelete,
                   deleteConfirmText, deleteStatus, deleteVariables, delPc,
                   cluster>>
    /\ UNCHANGED notDelete

\* the query cache drops the list of a namespace that is not shown
CacheGc(ns) ==
    /\ Catalog
    /\ ns # selectedNamespace
    /\ agents[ns] # None
    /\ agents' = [agents EXCEPT ![ns] = None]
    /\ UNCHANGED <<selectedNamespace, deleteModalOpen, agentToDelete,
                   deleteConfirmText, deleteStatus, deleteVariables, delPc,
                   cluster>>
    /\ UNCHANGED notDelete

\* ---- the backend's delete(namespace, name, kind)
\* success as soon as the deletes are accepted
BackendDeleteUnconfirmed(kind, next) ==
    /\ Catalog
    /\ delPc = kind
    /\ LET t == deleteVariables[1] IN
        cluster' = [cluster EXCEPT
                      ![t.namespace][t.name][kind] = DeleteResource(@)]
    /\ delPc' = IF next = "confirm" THEN "done" ELSE next
    /\ UNCHANGED <<agents, selectedNamespace, deleteModalOpen, agentToDelete,
                   deleteConfirmText, deleteStatus, deleteVariables>>
    /\ UNCHANGED notDelete

\* one delete of the handler: Service, then workload, then builds
BackendDelete(kind, next) ==
    /\ Catalog
    /\ delPc = kind
    /\ LET t == deleteVariables[1] IN
        cluster' = [cluster EXCEPT
                      ![t.namespace][t.name][kind] = DeleteResource(@)]
    /\ delPc' = next
    /\ UNCHANGED <<agents, selectedNamespace, deleteModalOpen, agentToDelete,
                   deleteConfirmText, deleteStatus, deleteVariables>>
    /\ UNCHANGED notDelete

\* success is returned only when all three are seen to be absent
BackendConfirm ==
    /\ Catalog
    /\ delPc = "confirm"
    /\ AllAbsent(deleteVariables[1])
    /\ delPc' = "done"
    /\ UNCHANGED <<agents, selectedNamespace, deleteModalOpen, agentToDelete,
                   deleteConfirmText, deleteStatus, deleteVariables, cluster>>
    /\ UNCHANGED notDelete

\* the cluster finishes the termination of a resource
Finalize(ns, n, kind) ==
    /\ Catalog
    /\ cluster[ns][n][kind] = "terminating"
    /\ cluster' = [cluster EXCEPT ![ns][n][kind] = "absent"]
    /\ UNCHANGED <<agents, selectedNamespace, deleteModalOpen, agentToDelete,
                   deleteConfirmText, deleteStatus, deleteVariables, delPc>>
    /\ UNCHANGED notDelete

\* The workloads of the cluster when the page is opened.  Under "delete"
\* the workloads a and b of team1 have any of their resources; under
\* "catalog" team1 has three workloads and team2 has one, of a name that
\* team1 has too, each with its Deployment only.
ClustersOf(program) ==
    CASE program = "delete" ->
            {[ns \in Namespaces |-> [n \in AgentNames |-> [kind \in ResourceKinds |->
                IF ns = "team1" /\ n # "c" THEN c[n][kind] ELSE "absent"]]] :
                c \in [{"a", "b"} -> [ResourceKinds -> {"present", "absent"}]]}
      [] program = "catalog" ->
            {[ns \in Namespaces |-> [n \in AgentNames |-> [kind \in ResourceKinds |->
                IF kind = "workload" /\ (ns = "team1" \/ n = "a")
                THEN "present" ELSE "absent"]]]}
      [] OTHER ->
            {[ns \in Namespaces |-> [n \in AgentNames |-> [kind \in ResourceKinds |->
                "absent"]]]}

DeleteInit ==
    /\ selectedNamespace = "team1"
    /\ agents = [ns \in Namespaces |->
                    IF ns = "team1" THEN <<ServerOrder>> ELSE None]
    /\ deleteModalOpen = FALSE
    /\ agentToDelete = None
    /\ deleteConfirmText = ""
    /\ deleteStatus = "idle"
    /\ deleteVariables = None
    /\ delPc = "idle"
    /\ cluster \in ClustersOf(prog)

(***************************************************************************)
(* Two imports of one name: each request applies its Deployment and then   *)
(* its Service, as the deploy script does in steps 5 and 5b.               *)
(***************************************************************************)
\* Entries of a request's servicePorts list.
MaxImportPorts == 2

ServicePortEntries == [port : {8080, 9090}, targetPort : {8000, 9000}]

ServicePortLists ==
    UNION {[1..n -> ServicePortEntries] : n \in 1..MaxImportPorts}

\* the Deployment of a request: one container port per target port
DeploymentOf(ports) ==
    [name |-> "workload",
     ports |-> [i \in 1..Len(ports) |-> ports[i].targetPort]]

\* the Service of a request
ServiceOf(ports) == [name |-> "workload", ports |-> ports]

ImportApplyDeployment(p) ==
    /\ prog = "imports"
    /\ importPc[p] = "deployment"
    /\ workload' = Apply(workload, DeploymentOf(importPorts[p])).res
    /\ importPc' = [importPc EXCEPT ![p] = "service"]
    /\ UNCHANGED <<importPorts, workloadService>>
    /\ UNCHANGED notImport

ImportApplyService(p) ==
    /\ prog = "imports"
    /\ importPc[p] = "service"
    /\ workloadService' = Apply(workloadService, ServiceOf(importPorts[p])).res
    /\ importPc' = [importPc EXCEPT ![p] = "done"]
    /\ UNCHANGED <<importPorts, workload>>
    /\ UNCHANGED notImport

ImportsInit ==
    /\ importPorts = [p \in Runs |-> <<>>]
    /\ importPc = [p \in Runs |-> "deployment"]
    /\ workload = None
    /\ workloadService = None

PollInit ==
    /\ ocBuild = "New"
    /\ ocPc = "poll"
    /\ ocIter = 0
    /\ phase = "Unknown"
    /\ jobDeleted = ""
    /\ oauthJob \in BOOLEAN
    /\ prog # "ocbuild" => oauthJob
    /\ chartUpgraded = FALSE
    /\ nodesTotal = 0
    /\ nodesNotReady = 0
    /\ nodePc = "poll"
    /\ nodeI = 1
    /\ NOT_READY = 0
    /\ TOTAL = 0
    /\ toolStatus \in ReadyStatuses
    /\ toolData = NoData
    /\ toolRefetch = FALSE
    /\ toolFetches = 0

ScriptInit ==
    /\ now = 0
    /\ build = None
    /\ buildRuns = <<>>
    /\ deployment = None
    /\ service = None
    /\ available = FALSE
    /\ pc = [p \in Runs |-> "start"]
    /\ IMAGE_TAG \in [Runs -> Tags]
    /\ IMAGE_TAG[1] = "v0.0.1"
    /\ BUILDRUN_NAME = [p \in Runs |-> Unset]
    /\ ELAPSED = [p \in Runs |-> 0]
    /\ STATUS = [p \in Runs |-> ""]
    /\ REASON = [p \in Runs |-> ""]
    /\ OUTPUT_IMAGE = [p \in Runs |-> None]
    /\ exitCode = [p \in Runs |-> Unset]
    /\ msg = [p \in Runs |-> <<>>]
    /\ ops = [p \in Runs |-> <<>>]
    /\ reads = [p \in Runs |-> 0]
    /\ snap = [p \in Runs |-> [dep |-> None, svc |-> None]]
    /\ lastRun = 0
    /\ seq = [p \in Runs |-> FALSE]

Init ==
    /\ prog = "deploy"
    /\ ScriptInit
    /\ PollInit
    /\ toolStatus = "Unknown"
    /\ FormInit
    /\ DeleteInit
    /\ ImportsInit
    /\ StatusInit

ScriptStep(p) ==
    \/ Step2CreateBuildRun(p)
    \/ Step3Poll(p)
    \/ Step4OutputImage(p)
    \/ Step5ApplyDeployment(p)
    \/ Step5bApplyService(p)
    \/ Step6WaitDeployment(p)

Environment ==
    \/ Tick
    \/ BuildProgress
    \/ DeploymentAvailable

\* The script is run again and again, one run after the other.
Next ==
    \/ \E p \in Runs : (\A q \in Runs : ~Active(q)) /\ Step1ApplyBuild(p)
    \/ \E p \in Runs : ScriptStep(p)
    \/ Environment

Spec == Init /\ [][Next]_vars

\* Runs of the script may overlap.
NextConc ==
    \/ \E p \in Runs : Step1ApplyBuild(p)
    \/ \E p \in Runs : ScriptStep(p)
    \/ Environment

SpecConc == Init /\ [][NextConc]_vars

\* The poll loops of the repository, one program per behaviour: the deploy
\* script, the oauth-secret image build, the node wait, the tool page.
InitPoll ==
    /\ prog \in {"deploy", "ocbuild", "nodes", "toolpage"}
    /\ ScriptInit
    /\ PollInit
    /\ prog # "toolpage" => toolStatus = "Unknown"
    /\ IMAGE_TAG[2] = "v0.0.1"
    /\ FormInit
    /\ DeleteInit
    /\ ImportsInit
    /\ StatusInit

NextPoll ==
    \/ Step1ApplyBuild(1)
    \/ ScriptStep(1)
    \/ Environment
    \/ OcPoll
    \/ OcDeleteJob
    \/ OcHelmUpgrade
    \/ OcBuildProgress
    \/ NodePoll
    \/ NodeChange
    \/ ToolFetch
    \/ ToolFetchError
    \/ ToolStatusChange

SpecPoll == InitPoll /\ [][NextPoll]_vars

\* The import page, one group of fields per specification.
InitImport ==
    /\ prog = "import"
    /\ ScriptInit
    /\ PollInit
    /\ toolStatus = "Unknown"
    /\ IMAGE_TAG[2] = "v0.0.1"
    /\ FormInit
    /\ DeleteInit
    /\ ImportsInit
    /\ StatusInit

SubmitStep ==
    \/ HandleSubmit
    \/ CreateSucceeds
    \/ CreateFails

NextImportName ==
    \/ \E value \in NameInputs : SetName(value)
    \/ \E method \in {"source", "image"} : SetDeploymentMethod(method)
    \/ \E value \in {"", "https://github.com/kagenti/agent-examples"} : SetGitUrl(value)
    \/ \E value \in ExampleInputs : HandleExampleChange(value)
    \/ \E value \in PathInputs : HandlePathChange(value)
    \/ \E value \in ImageInputs : HandleImageChange(value)
    \/ SubmitStep

SpecImportName == InitImport /\ [][NextImportName]_vars

\* The fields the success handler reads, edited around a submit.
NextImportRoute ==
    \/ \E value \in NameInputs : SetName(value)
    \/ \E ns \in {"team1", "team2"} : SetImportNamespace(ns)
    \/ \E method \in {"source", "image"} : SetDeploymentMethod(method)
    \/ \E value \in ImageInputs : HandleImageChange(value)
    \/ SubmitStep

SpecImportRoute == InitImport /\ [][NextImportRoute]_vars

NextImportPorts ==
    \/ \E value \in ExampleInputs : HandleExampleChange(value)
    \/ AddServicePort
    \/ \E index \in 1..MaxPorts : RemoveServicePort(index)
    \/ \E index \in 1..MaxPorts :
         /\ index <= Len(servicePorts)
         /\ \E value \in PortInputs(servicePorts[index].port) :
              UpdateServicePort(index, value)
    \/ SubmitStep

SpecImportPorts == InitImport /\ [][NextImportPorts]_vars

NextImportEnv ==
    \/ \E value \in ExampleInputs : HandleExampleChange(value)
    \/ AddEnvVar
    \/ \E index \in 1..MaxEnv : RemoveEnvVar(index)
    \/ \E index \in 1..MaxEnv, value \in EnvNames : UpdateEnvVar(index, "name", value)
    \/ \E index \in 1..MaxEnv, value \in EnvValues : UpdateEnvVar(index, "value", value)
    \/ \E index \in 1..MaxEnv, type \in {"value", "secret", "configMap"} :
         HandleEnvVarTypeChange(index, type)
    \/ \E importedVars \in ImportedLists : HandleImportEnvVars(importedVars)
    \/ SubmitStep

SpecImportEnv == InitImport /\ [][NextImportEnv]_vars

\* Status queries on one workload of any type.
InitStatus ==
    /\ prog = "status"
    /\ ScriptInit
    /\ PollInit
    /\ toolStatus = "Unknown"
    /\ IMAGE_TAG[2] = "v0.0.1"
    /\ FormInit
    /\ DeleteInit
    /\ ImportsInit
    /\ workloadType \in WorkloadTypes
    /\ rawStatus \in {None} \cup {<<st>> : st \in RawStatuses}
    /\ queryResult = ""

NextStatus ==
    \/ StatusQuery
    \/ RawStatusChange

SpecStatus == InitStatus /\ [][NextStatus]_vars

\* Deletes: the catalog page with the backend's handler, and the script
\* that deletes the oauth-secret Job.
InitDelete ==
    /\ prog \in {"delete", "ocbuild"}
    /\ ScriptInit
    /\ PollInit
    /\ toolStatus = "Unknown"
    /\ IMAGE_TAG[2] = "v0.0.1"
    /\ FormInit
    /\ DeleteInit
    /\ ImportsInit
    /\ StatusInit

NextDelete ==
    \/ \E ns \in Namespaces, n \in AgentNames :
         HandleDeleteClick([namespace |-> ns, name |-> n])
    \/ HandleCloseDeleteModal
    \/ \E value \in ConfirmTexts : SetDeleteConfirmText(value)
    \/ HandleDeleteConfirm
    \/ DeleteOnSuccess
    \/ DeleteFails
    \/ ListRefetch
    \/ BackendDelete("service", "workload")
    \/ BackendDelete("workload", "builds")
    \/ BackendDelete("builds", "confirm")
    \/ BackendConfirm
    \/ \E ns \in Namespaces, n \in AgentNames, kind \in ResourceKinds :
         Finalize(ns, n, kind)
    \/ OcPoll
    \/ OcDeleteJob
    \/ OcHelmUpgrade
    \/ OcBuildProgress

SpecDelete == InitDelete /\ [][NextDelete]_vars

\* The catalog page with its namespace selector, both namespaces populated.
InitCatalog ==
    /\ prog = "catalog"
    /\ ScriptInit
    /\ PollInit
    /\ toolStatus = "Unknown"
    /\ IMAGE_TAG[2] = "v0.0.1"
    /\ FormInit
    /\ DeleteInit
    /\ ImportsInit
    /\ StatusInit

NextCatalog ==
    \/ \E ns \in Namespaces : SetNamespace(ns)
    \/ \E ns \in Namespaces, n \in AgentNames :
         HandleDeleteClick([namespace |-> ns, name |-> n])
    \/ HandleCloseDeleteModal
    \/ \E value \in ConfirmTexts : SetDeleteConfirmText(value)
    \/ HandleDeleteConfirm
    \/ DeleteOnSuccess
    \/ DeleteFails
    \/ ListRefetch
    \/ \E ns \in Namespaces : CacheGc(ns)
    \/ BackendDelete("service", "workload")
    \/ BackendDelete("workload", "builds")
    \/ BackendDelete("builds", "confirm")
    \/ BackendConfirm
    \/ \E ns \in Namespaces, n \in AgentNames, kind \in ResourceKinds :
         Finalize(ns, n, kind)

SpecCatalog == InitCatalog /\ [][NextCatalog]_vars

\* Two concurrent imports of the same name with different servicePorts.
InitImports ==
    /\ prog = "imports"
    /\ ScriptInit
    /\ PollInit
    /\ toolStatus = "Unknown"
    /\ IMAGE_TAG[2] = "v0.0.1"
    /\ FormInit
    /\ DeleteInit
    /\ StatusInit
    /\ importPorts \in [Runs -> ServicePortLists]
    /\ importPorts[1] # importPorts[2]
    /\ importPc = [p \in Runs |-> "deployment"]
    /\ workload = None
    /\ workloadService = None

NextImports ==
    \/ \E p \in Runs : ImportApplyDeployment(p)
    \/ \E p \in Runs : ImportApplyService(p)

SpecImports == InitImports /\ [][NextImports]_vars

(***************************************************************************)
(* Claims about the deploy script.                                         *)
(***************************************************************************)
Range(f) == {f[i] : i \in DOMAIN f}

IsPrefix(a, b) == Len(a) <= Len(b) /\ \A i \in 1..Len(a) : a[i] = b[i]

\* run p has applied the Deployment or the Service
Applied(p) == Range(ops[p]) \cap {"applyDeployment", "applyService"} # {}

\* C1: a run applies the Deployment and the Service only after its wait
\* loop has read Succeeded=True from its own BuildRun; a run that ended
\* with the BuildRun failed or with the loop's timeout has applied neither,
\* and neither resource exists unless some run applied it.
C1_DeployOnlyAfterBuildSucceeded ==
    /\ \A p \in Runs :
        /\ pc[p] \in {"step4", "step5", "step5b", "step6"} =>
              /\ STATUS[p] = "True"
              /\ GetStatus(buildRuns, BUILDRUN_NAME[p]) = "True"
        /\ Applied(p) => pc[p] \in {"step5b", "step6", "done", "exit_apply"}
        /\ pc[p] \in {"exit_failed", "exit_timeout"} => ~Applied(p)
    /\ (deployment # None \/ service # None) => \E p \in Runs : Applied(p)

\* one run timed out and left nothing, another deployed after its build
C1_Witness ==
    \E p, q \in Runs :
        /\ pc[p] = "exit_timeout" /\ ~Applied(p)
        /\ pc[q] = "done" /\ Applied(q) /\ deployment # None /\ service # None

\* The order of resource operations of one run of the script.
Order == <<"applyBuild", "createBuildRun", "getBuildRun", "applyDeployment",
           "applyService", "waitDeployment">>

\* C2: the kinds of operation a run has issued so far are always an initial
\* part of: apply Build, create BuildRun, read BuildRun, apply Deployment,
\* apply Service, wait for the Deployment; and a run that completed has
\* issued all of them.
C2_OperationOrder ==
    \A p \in Runs :
        /\ IsPrefix(ops[p], Order)
        /\ pc[p] = "done" => ops[p] = Order
        /\ pc[p] = "step5b" => ops[p] = SubSeq(Order, 1, 4)
        /\ pc[p] = "step6" => ops[p] = SubSeq(Order, 1, 5)

C2_Witness == \E p \in Runs : pc[p] = "done" /\ ops[p] = Order

C5_FreshBuildRunName ==
    [][\A p \in Runs :
          pc[p] = "step2" /\ pc'[p] = "poll" =>
              BUILDRUN_NAME'[p] \notin DOMAIN buildRuns]_vars

\* C6: a run of the script that directly follows a completed run with the
\* same settings, nothing else running, leaves the Deployment and the
\* Service as the first run left them; none of its applies fails, and when
\* it completes it ends with status 0.
C6_SecondRunChangesNothing ==
    \A q \in Runs :
        seq[q] =>
            /\ snap[q].dep # None /\ snap[q].svc # None
            /\ deployment = snap[q].dep
            /\ service = snap[q].svc
            /\ pc[q] # "exit_apply"
            /\ pc[q] = "done" => exitCode[q] = 0

C6_Witness ==
    \E q \in Runs : seq[q] /\ pc[q] = "done" /\ Applied(q) /\ now > 0

(***************************************************************************)
(* Claims about the poll loops.                                            *)
(***************************************************************************)
\* The largest number of polls a loop of the scripts makes.
LongestLoop == OC_POLLS

\* C4 as stated: every poll loop stops after a bounded number of polls:
\* the script loops within their bounds, the tool page no later than the
\* longest of them.
C4_EveryPollLoopBounded ==
    /\ \A p \in Runs : reads[p] <= TIMEOUT \div POLL_INTERVAL
    /\ ocIter <= OC_POLLS
    /\ nodeI <= MAX_RETRIES
    /\ toolFetches <= LongestLoop

\* C4, amended: the script loops stop within their bounds (60 reads of
\* the BuildRun, 120 of the build phase, 60 of the nodes) and then take the
\* timeout exit; the tool page has no bound: after every fetch whose
\* readyStatus is not Ready a refetch is scheduled, however many fetches
\* were made, and none is scheduled after Ready.
C4_ScriptLoopsBoundedToolPageNot ==
    /\ \A p \in Runs :
        /\ reads[p] < TIMEOUT \div POLL_INTERVAL
        /\ reads[p] * POLL_INTERVAL = ELAPSED[p]
        /\ pc[p] = "poll" => ELAPSED[p] < TIMEOUT
    /\ ocIter <= OC_POLLS
    /\ ocPc = "poll" => ocIter < OC_POLLS
    /\ ocPc = "exit_timeout" => ocIter = OC_POLLS
    /\ nodeI <= MAX_RETRIES
    /\ nodePc = "exit_timeout" => nodeI = MAX_RETRIES
    /\ toolFetches > 0 => (toolRefetch <=> toolData # "Ready")

C4_Witness ==
    /\ toolFetches > LongestLoop
    /\ toolData = "Failed"
    /\ toolRefetch


(***************************************************************************)
(* Claims about the import page.                                           *)
(***************************************************************************)
\* createMutation.mutate is called in this step
Mutates == createStatus # "pending" /\ createStatus' = "pending"

\* C7: handleSubmit calls createMutation.mutate only if validateForm
\* returned true; a submit whose validation fails sends no create request.
C7_CreateOnlyIfValid ==
    [][/\ Mutates => ValidateForm /\ lastRequest' = <<CreateRequest>>
       /\ lastRequest' # lastRequest /\ lastRequest' # None => Mutates]_vars

\* a submit was refused on the name and no request has ever been sent
C7_Witness ==
    /\ validated.name = "error"
    /\ createStatus = "idle"
    /\ lastRequest = None

Ports(req) == {req.servicePorts[i].port : i \in 1..Len(req.servicePorts)}

\* C8: no create request is sent whose servicePorts list has two entries
\* with the same port value.
C8_NoDuplicatePortSent ==
    lastRequest # None =>
        Cardinality(Ports(lastRequest[1])) = Len(lastRequest[1].servicePorts)

Names(req) == {req.envVars[i].name : i \in 1..Len(req.envVars)}

\* C9: the envVars list of a create request never has two entries with the
\* same name.
C9_NoDuplicateEnvNameSent ==
    lastRequest # None =>
        Cardinality(Names(lastRequest[1])) = Len(lastRequest[1].envVars)

\* a DNS-1123 label: 1 to 63 characters, lowercase letters, digits and
\* '-', a letter or digit first and last
IsDNS1123Label(str) ==
    /\ Len(str) \in 1..63
    /\ \A i \in 1..Len(str) : str[i] \in Lower \cup Digit \cup {"-"}
    /\ str[1] \in Lower \cup Digit
    /\ str[Len(str)] \in Lower \cup Digit

\* C10: an import whose final name is not a valid DNS-1123 label is
\* rejected: every create request sent carries a valid label as its name.
C10_NameIsDNSLabel ==
    lastRequest # None => IsDNS1123Label(lastRequest[1].name)

\* C11: every create request is either a source request (git URL and git
\* path not empty, no container image, no image pull secret) or an image
\* request (container image not empty, git URL, path and branch empty).
C11_RequestOfOneMethod ==
    lastRequest # None =>
        LET req == lastRequest[1]
        IN  \/ /\ req.deploymentMethod = "source"
               /\ req.gitUrl # ""
               /\ req.gitPath # <<>>
               /\ req.containerImage = None
               /\ req.imagePullSecret = None
            \/ /\ req.deploymentMethod = "image"
               /\ req.containerImage # None
               /\ req.containerImage[1] # <<>>
               /\ req.gitUrl = ""
               /\ req.gitPath = <<>>
               /\ req.gitBranch = ""

\* an image request was sent from a form that still holds a git path
C11_Witness ==
    /\ createStatus = "pending"
    /\ lastRequest # None
    /\ lastRequest[1].deploymentMethod = "image"
    /\ deploymentMethod = "image"
    /\ gitPath # <<>>
    /\ gitUrl # ""

(***************************************************************************)
(* Claims about the status normalizer.                                     *)
(***************************************************************************)
\* a status query has given a new answer in this step
Answers == queryResult' # queryResult

\* C12 as stated: every answer of normalize is one of Ready, Progressing,
\* NotReady, Completed, Failed, Unknown, and absent or malformed input
\* gives Unknown.
C12_AnswerInSixValueSet ==
    [][Answers =>
         /\ queryResult' \in {"Ready", "Progressing", "Not Ready", "Completed",
                              "Failed", "Unknown"}
         /\ Malformed(workloadType, rawStatus) => queryResult' = "Unknown"]_vars

\* C12 as amended: every answer of normalize is one value of readyStatus'
\* type, which also holds Running and Pending; absent or malformed input
\* gives Unknown; a Job without a Complete or Failed condition gives
\* Running when a pod runs and Pending otherwise.
C12_AnswerInReadyStatusType ==
    [][Answers =>
         /\ queryResult' \in ReadyStatusType
         /\ Malformed(workloadType, rawStatus) => queryResult' = "Unknown"
         /\ /\ workloadType = "job"
            /\ rawStatus # None
            /\ ~rawStatus[1].complete
            /\ ~rawStatus[1].failed
            => queryResult' = IF rawStatus[1].podRunning THEN "Running"
                              ELSE "Pending"]_vars

\* the query on a Job with a running pod and no condition answered Running
C12_Witness ==
    /\ workloadType = "job"
    /\ rawStatus # None
    /\ rawStatus[1].podRunning
    /\ ~rawStatus[1].complete
    /\ ~rawStatus[1].failed
    /\ queryResult = "Running"

\* C13: for a Deployment or StatefulSet with no rollout in progress, Ready
\* is answered exactly when readyReplicas >= desiredReplicas > 0, else
\* Failed exactly when readyReplicas = 0 with a failure condition, else
\* NotReady; 1 of 3 ready without failure is NotReady, 0 desired is never
\* Ready.
C13_ReplicaRulesInOrder ==
    [][/\ Answers
       /\ workloadType # "job"
       /\ ~Malformed(workloadType, rawStatus)
       /\ ~rawStatus[1].rollingOut
       => LET st == rawStatus[1]
              enough == st.readyReplicas >= st.desiredReplicas
                        /\ st.desiredReplicas > 0
              broken == st.readyReplicas = 0 /\ st.failureCondition
          IN  /\ queryResult' \in {"Ready", "Failed", "Not Ready"}
              /\ queryResult' = "Ready" <=> enough
              /\ queryResult' = "Failed" <=> ~enough /\ broken
              /\ st.desiredReplicas = 0 => queryResult' # "Ready"
              /\ st.desiredReplicas = 3 /\ st.readyReplicas = 1
                 /\ ~st.failureCondition => queryResult' = "Not Ready"]_vars

\* the query on a Deployment with 1 of 3 replicas ready answered NotReady
C13_Witness ==
    /\ workloadType = "deployment"
    /\ rawStatus # None
    /\ rawStatus[1].desiredReplicas = 3
    /\ rawStatus[1].readyReplicas = 1
    /\ ~rawStatus[1].failureCondition
    /\ ~rawStatus[1].rollingOut
    /\ queryResult = "Not Ready"

(***************************************************************************)
(* Claims about deletes.                                                   *)
(***************************************************************************)
\* C15: a delete reports success only when the Service, the workload and
\* the builds of the deleted name are all absent, and they are absent in
\* every state in which the delete has succeeded.
C15_SuccessOnlyWhenAllAbsent ==
    [][/\ delPc' = "done" => AllAbsent(deleteVariables[1])'
       /\ deleteStatus' = "success" => AllAbsent(deleteVariables[1])']_vars

\* the deletes are accepted, the Service is still terminating, and the
\* request has not been answered
C15_Witness ==
    /\ delPc = "confirm"
    /\ deleteStatus = "pending"
    /\ cluster[deleteVariables[1].namespace][deleteVariables[1].name].service = "terminating"

\* C16: a delete of a resource that is absent is not an error and changes
\* nothing: the handler's delete of an absent resource goes on to its next
\* step with the cluster as it was, and kubectl delete job on an absent
\* Job lets the script go on to helm upgrade.
C16_DeleteOfAbsentIsNoError ==
    [][/\ /\ delPc \in ResourceKinds
          /\ delPc' # delPc
          /\ deleteStatus' = "pending"
          /\ cluster[deleteVariables[1].namespace][deleteVariables[1].name][delPc] = "absent"
          => cluster' = cluster /\ delPc' \in ResourceKinds \cup {"confirm"}
       /\ /\ delPc = "confirm"
          /\ delPc' # delPc
          /\ deleteStatus' = "pending"
          => delPc' = "done" /\ cluster' = cluster
       /\ /\ ocPc = "delete_job"
          /\ ocPc' # ocPc
          /\ ~oauthJob
          => ocPc' = "helm_upgrade" /\ ~oauthJob']_vars

\* kubectl found no Job to delete and the script went on
C16_Witness ==
    /\ prog = "ocbuild"
    /\ jobDeleted = "not found"
    /\ ocPc \in {"helm_upgrade", "wait_job"}

(***************************************************************************)
(* Claims about concurrent imports.                                        *)
(***************************************************************************)
ImportsDone == \A p \in Runs : importPc[p] = "done"

\* C17 as stated: after two concurrent imports of one name the Deployment
\* and the Service both come from the same import.
C17_BothFromOneImport ==
    ImportsDone =>
        \E p \in Runs :
            /\ workload = <<DeploymentOf(importPorts[p])>>
            /\ workloadService = <<ServiceOf(importPorts[p])>>

\* C17 as amended: the Deployment is the Deployment of one of the imports
\* and the Service is the Service of one of the imports, its port list
\* never a merge of the two lists; the two may come from different imports.
C17_EachFromOneImport ==
    /\ workload # None =>
           \E p \in Runs : workload = <<DeploymentOf(importPorts[p])>>
    /\ workloadService # None =>
           \E p \in Runs : workloadService = <<ServiceOf(importPorts[p])>>
    /\ ImportsDone => workload # None /\ workloadService # None

\* both imports are done, the Deployment is the first import's and the
\* Service the second's
C17_Witness ==
    /\ ImportsDone
    /\ workload = <<DeploymentOf(importPorts[1])>>
    /\ workload # <<DeploymentOf(importPorts[2])>>
    /\ workloadService = <<ServiceOf(importPorts[2])>>

(***************************************************************************)
(* Claims about name collisions.                                           *)
(***************************************************************************)
\* the name of the tool the deploy script has put into namespace team1
ExistingToolName ==
    <<"w", "e", "a", "t", "h", "e", "r", "-", "t", "o", "o", "l">>

\* C18: importing an agent under a name that an existing tool of the same
\* namespace uses fails validation: no create request carries that name.
C18_NoRequestForNameOfOtherKind ==
    lastRequest # None =>
        ~(/\ lastRequest[1].namespace = "team1"
          /\ lastRequest[1].name = ExistingToolName)

(***************************************************************************)
(* Claims about the end of a scripted run.                                 *)
(***************************************************************************)
\* C19: the script ends with status 0 and the completion banner only if
\* the readiness wait saw the Deployment available; a wait that timed out
\* ends the script with a non-zero status.
C19_CompleteOnlyIfReady ==
    \A p \in Runs :
        pc[p] = "done" =>
            /\ msg[p][1] = "condition met"
            /\ exitCode[p] = 0

\* C20: a run creates a BuildRun only in step 2 and passes step 2 once;
\* when it reads Succeeded=False it creates no further BuildRun and ends
\* with status 1 and the failure reason printed, and stays ended.
C20_FailedBuildRunNotRetried ==
    [][/\ \A p \in Runs :
            /\ pc'[p] = "start" => pc[p] = "start"
            /\ pc'[p] = "step2" => pc[p] \in {"start", "step2"}
            /\ pc[p] = "exit_failed" => pc'[p] = "exit_failed"
            /\ pc'[p] = "exit_failed" /\ pc[p] # "exit_failed" =>
                  /\ pc[p] = "poll"
                  /\ ops'[p] = <<"applyBuild", "createBuildRun", "getBuildRun">>
                  /\ exitCode'[p] = ExitBuildFailed
                  /\ msg'[p] = <<MsgFailed, "BuildFailed">>
                  /\ buildRuns' = buildRuns
       /\ DOMAIN buildRuns' # DOMAIN buildRuns =>
            \E p \in Runs : pc[p] = "step2" /\ pc'[p] = "poll"]_vars

\* the first run has ended on its failed BuildRun, which is the only one
C20_Witness ==
    /\ pc[1] = "exit_failed"
    /\ pc[2] = "start"
    /\ Cardinality(DOMAIN buildRuns) = 1
    /\ \A n \in DOMAIN buildRuns : buildRuns[n].cond = "False"

\* C21 as stated: at every moment at most one BuildRun of the workload is
\* without a terminal Succeeded condition, also when two runs of the
\* script overlap.
C21_AtMostOneActiveBuildRun ==
    Cardinality({n \in DOMAIN buildRuns : buildRuns[n].cond = ""}) <= 1

\* C22: the import page never has two create requests in flight: while
\* the create mutation is pending the submit control is disabled, and no
\* step taken while it is pending sends another request.
C22_OneCreateInFlight ==
    /\ [](/\ inFlight <= 1
          /\ createStatus = "pending" <=> inFlight = 1
          /\ createStatus = "pending" => SubmitDisabled)
    /\ [][createStatus = "pending" => inFlight' <= inFlight]_vars

\* a request is pending and the form was edited since it was sent
C22_Witness ==
    /\ createStatus = "pending"
    /\ inFlight = 1
    /\ lastRequest # None
    /\ lastRequest[1].name # FinalName

\* C23: the tool detail page fetches when it mounts and afterwards only
\* when a refetch is scheduled; after every fetch a refetch is scheduled,
\* 5 seconds later, exactly when the readyStatus fetched last is not
\* 'Ready' (a missing one included), so none is scheduled once a fetch
\* returned 'Ready'; a fetch leaves the workload's status as it was.
C23_RefetchUntilReady ==
    [][/\ toolFetches' # toolFetches =>
            /\ toolFetches = 0 \/ toolRefetch
            /\ toolFetches' = toolFetches + 1
            /\ toolStatus' = toolStatus
            /\ toolRefetch' <=> toolData' # "Ready"
            /\ toolRefetch' => RefetchInterval(toolData') = 5000
            /\ toolData' \in {toolData, toolStatus, ""}
       /\ toolFetches' = toolFetches =>
            /\ toolRefetch' = toolRefetch
            /\ toolData' = toolData
       /\ toolFetches > 0 /\ toolData = "Ready" => toolFetches' = toolFetches]_vars

\* fetches went on while the status was missing or not Ready, and stopped
\* with the fetch that returned Ready
C23_Witness ==
    /\ toolFetches > 3
    /\ toolData = "Ready"
    /\ ~toolRefetch
    /\ toolStatus # "Ready"

(***************************************************************************)
(* Claims about the catalog page's delete.                                 *)
(***************************************************************************)
\* the entries of a cached list, none when the cache has no list
Entries(cache) == IF cache = None THEN <<>> ELSE cache[1]

\* list l is list o without its entries n, the others in their order
KeepsOthersInOrder(o, l, n) ==
    /\ \A i \in DOMAIN l : l[i] # n
    /\ \E f \in [DOMAIN l -> DOMAIN o] :
        /\ \A i, j \in DOMAIN l : i < j => f[i] < f[j]
        /\ \A i \in DOMAIN l : l[i] = o[f[i]]
        /\ \A j \in DOMAIN o : o[j] # n => \E i \in DOMAIN l : f[i] = j

C25_DeleteOnlyWhenConfirmed ==
    [][/\ \/ deleteStatus' = "pending" /\ deleteStatus # "pending"
          \/ deleteVariables' # deleteVariables
          \/ delPc' = "service" /\ delPc # "service"
          => /\ deleteModalOpen
             /\ agentToDelete # None
             /\ deleteConfirmText = agentToDelete[1].name
             /\ deleteVariables' = <<[namespace |-> agentToDelete[1].namespace,
                                      name |-> agentToDelete[1].name]>>
             /\ deleteStatus # "pending" /\ deleteStatus' = "pending"
             /\ delPc' = "service"
       /\ cluster' # cluster /\ (\E ns \in Namespaces, n \in AgentNames :
                                   cluster'[ns][n] # cluster[ns][n]
                                   /\ \E kind \in ResourceKinds :
                                        cluster[ns][n][kind] = "present"
                                        /\ cluster'[ns][n][kind] # "present")
          => /\ deleteStatus = "pending"
             /\ deleteVariables # None
             /\ \A ns \in Namespaces, n \in AgentNames :
                  cluster'[ns][n] # cluster[ns][n] =>
                      deleteVariables[1] = [namespace |-> ns, name |-> n]]_vars

\* the request for b was sent from b's modal with the text b typed
C25_Witness ==
    /\ deleteStatus = "pending"
    /\ deleteModalOpen
    /\ agentToDelete = <<[namespace |-> "team1", name |-> "b"]>>
    /\ deleteVariables = agentToDelete
    /\ deleteConfirmText = "b"
    /\ delPc = "service"

\* C26: in every reachable state of the catalog page the delete modal is
\* open exactly when a delete target is set, and while the modal is closed
\* the confirmation text is empty; a modal that opens starts with an empty
\* text.
C26_ModalOpenIffTargetSet ==
    /\ [](/\ deleteModalOpen <=> agentToDelete # None
          /\ ~deleteModalOpen => deleteConfirmText = "")
    /\ [][~deleteModalOpen /\ deleteModalOpen' =>
            agentToDelete' # None /\ deleteConfirmText' = ""]_vars

\* a's name was typed and confirmed in a's modal, that modal was closed,
\* and the modal now open for b has no text
C26_Witness ==
    /\ deleteVariables = <<[namespace |-> "team1", name |-> "a"]>>
    /\ deleteModalOpen
    /\ agentToDelete = <<[namespace |-> "team1", name |-> "b"]>>
    /\ deleteConfirmText = ""

\* C27 as stated: when the delete of workload X succeeds while the modal is
\* open for another workload Y, the modal stays open and Y's target and
\* confirmation text stay as they are.
C27_SuccessLeavesOtherModal ==
    [][/\ deleteStatus = "pending" /\ deleteStatus' = "success"
       /\ deleteModalOpen
       /\ agentToDelete # deleteVariables
       => /\ deleteModalOpen'
          /\ agentToDelete' = agentToDelete
          /\ deleteConfirmText' = deleteConfirmText]_vars

\* C28 as stated: when a create request succeeds the page navigates to the
\* route of the workload that was submitted: the route's namespace and
\* name are those of the request, and it is the build page exactly when
\* the request's deploymentMethod was 'source', whatever was edited while
\* the request was pending.
C28_RouteOfSubmittedWorkload ==
    [][createStatus = "pending" /\ createStatus' = "success" =>
         /\ route' # None
         /\ route'[1].namespace = lastRequest[1].namespace
         /\ route'[1].name = lastRequest[1].name
         /\ route'[1].build <=> lastRequest[1].deploymentMethod = "source"]_vars

\* C29: the wait loop reads the BuildRun status at most 60 times
\* (TIMEOUT / POLL_INTERVAL); a run takes the timeout exit exactly when
\* its 60th read, like the 59 before it, returned neither True nor False;
\* a read of True, the 60th included, takes the run to step 4 and a read
\* of False to the failure exit.
C29_TimeoutOnlyAfterSixtyOpenReads ==
    [][\A p \in Runs :
          LET status == GetStatus(buildRuns, BUILDRUN_NAME[p])
              last == reads[p] + 1 = TIMEOUT \div POLL_INTERVAL
          IN  /\ pc[p] = "poll" => reads[p] + 1 <= TIMEOUT \div POLL_INTERVAL
              /\ pc'[p] = "exit_timeout" /\ pc[p] # "exit_timeout" =>
                    pc[p] = "poll" /\ last /\ status \notin {"True", "False"}
              /\ pc[p] = "poll" /\ (pc'[p] # "poll" \/ reads'[p] # reads[p]) =>
                    /\ status = "True" => pc'[p] = "step4"
                    /\ status = "False" => pc'[p] = "exit_failed"
                    /\ status \notin {"True", "False"} /\ last =>
                          pc'[p] = "exit_timeout"
                    /\ status \notin {"True", "False"} /\ ~last =>
                          pc'[p] = "poll" /\ reads'[p] = reads[p] + 1]_vars

\* the 60th read returned True and the run went on to step 4
C29_Witness ==
    \E p \in Runs :
        /\ pc[p] = "step4"
        /\ reads[p] + 1 = TIMEOUT \div POLL_INTERVAL
        /\ ELAPSED[p] = TIMEOUT - POLL_INTERVAL
        /\ STATUS[p] = "True"

\* C30: in the OpenShift path the oauth-secret Job is deleted and the
\* chart upgraded only after a poll read the phase Complete; a poll that
\* reads Failed, Error or Cancelled ends the script, and so does the 120th
\* poll that does not read Complete; a script that ended so (both ends
\* are exit 1) has left the Job and the release as they were, and stays
\* ended.
C30_RestartOnlyAfterComplete ==
    /\ [](/\ jobDeleted # "" \/ chartUpgraded =>
                phase = "Complete" /\ ocPc \in {"helm_upgrade", "wait_job"}
          /\ ocPc \in {"delete_job", "helm_upgrade", "wait_job"} => phase = "Complete"
          /\ ocPc = "exit_failed" => phase \in OcTerminalFailure
          /\ ocPc = "exit_timeout" =>
                ocIter = OC_POLLS /\ phase \notin {"Complete"} \cup OcTerminalFailure
          /\ ocPc \in {"poll", "exit_failed", "exit_timeout"} =>
                jobDeleted = "" /\ ~chartUpgraded
          /\ ocIter <= OC_POLLS)
    /\ [][/\ ocPc \in {"poll", "exit_failed", "exit_timeout"} =>
                oauthJob' = oauthJob /\ chartUpgraded' = chartUpgraded
          /\ ocPc \in {"exit_failed", "exit_timeout"} => ocPc' = ocPc
          /\ ocPc = "poll" /\ ocIter' # ocIter =>
                /\ phase' \in OcTerminalFailure => ocPc' = "exit_failed"
                /\ phase' = "Complete" => ocPc' = "delete_job"
                /\ ocIter' = OC_POLLS /\ phase' \notin {"Complete"} \cup OcTerminalFailure =>
                      ocPc' = "exit_timeout"]_vars

\* 120 polls passed without Complete: the script has ended, the Job is
\* there and the chart is as it was
C30_Witness ==
    /\ prog = "ocbuild"
    /\ ocPc = "exit_timeout"
    /\ ocIter = OC_POLLS
    /\ oauthJob
    /\ jobDeleted = ""
    /\ ~chartUpgraded

====
